---- MODULE Spec2Model ----
(***************************************************************************)
(* Model of the interactive shell execution core                           *)
(* (openhands/runtime/utils/bash.py): one BashSession, the shell inside    *)
(* its tmux pane, and the polling loop of execute().                       *)
(*                                                                         *)
(* Text is modelled character by character over a small alphabet.  A pane  *)
(* or an output is a sequence of characters; one character is a record     *)
(* [c, ec, wd].  The character "P" stands for one whole PS1 block          *)
(* "###PS1JSON### {json} ###PS1END###" (one regex match) and carries the   *)
(* exit_code and working_dir written in its JSON; every other character    *)
(* has ec = 0 and wd = "".                                                 *)
(*                                                                         *)
(* Time is counted in units of POLL_INTERVAL.                              *)
(***************************************************************************)
EXTENDS Integers, Sequences, FiniteSets, TLC

\* ------------------------------------------------------------------ bounds
\* largest deadline, in poll intervals: of the hard timeout an action
\* carries and of the no_change_timeout_seconds a session is built with
MaxTime == 1
MaxTimeout == MaxTime
MaxNoChange == MaxTime
\* longest time one sleep of the polling loop may take (>= 1 poll interval)
MaxSleep == MaxTime + 1
\* most chunks of output one command prints
MaxOut == 1
\* most send_keys calls that type into the pane before it is cleared
MaxTyped == 2
\* calls of close() on one session
MaxClose == 2
\* longest command text given to the splitter and the escaper
MaxText == 4
\* the longest capture given to the framing routine
MaxCapture == 5

\* ------------------------------------------------------------- characters
Ch(x) == [c |-> x, ec |-> 0, wd |-> ""]
NL == Ch("nl")
Fence(e, d) == [c |-> "P", ec |-> e, wd |-> d]

\* directories: the work_dir of the session and another one
WorkDir == "/w"
OtherDir == "/t"

\* str.isspace for the alphabet
IsSpace(x) == x.c \in {"nl", "sp"}

MaxOf(S) == CHOOSE x \in S : \A y \in S : y <= x
MinOf(S) == CHOOSE x \in S : \A y \in S : x <= y

\* str.rstrip(): the text without the whitespace it ends with
RStrip(s) ==
    LET n == Len(s)
        k == CHOOSE x \in 0..n :
                /\ x = n \/ ~IsSpace(s[n - x])
                /\ \A j \in (n - x + 1)..n : IsSpace(s[j])
    IN SubSeq(s, 1, n - k)

\* str.lstrip(): the text without the whitespace it starts with
LStrip(s) ==
    LET n == Len(s)
        k == CHOOSE x \in 0..n :
                /\ x = n \/ ~IsSpace(s[x + 1])
                /\ \A j \in 1..x : IsSpace(s[j])
    IN SubSeq(s, k + 1, n)

\* str.strip()
Strip(s) == LStrip(RStrip(s))

\* str.startswith / str.endswith / str.removeprefix
StartsWith(s, p) == Len(p) <= Len(s) /\ SubSeq(s, 1, Len(p)) = p
EndsWith(s, p) ==
    Len(p) <= Len(s) /\ SubSeq(s, Len(s) - Len(p) + 1, Len(s)) = p
RemovePrefix(s, p) ==
    IF StartsWith(s, p) THEN SubSeq(s, Len(p) + 1, Len(s)) ELSE s

\* Python slices s[a:] and s[a:b] with 0-based, non-negative a and b
SliceFrom(s, a) == SubSeq(s, a + 1, Len(s))
SliceTo(s, b) == SubSeq(s, 1, IF b < Len(s) THEN b ELSE Len(s))
Slice(s, a, b) == SubSeq(s, a + 1, IF b < Len(s) THEN b ELSE Len(s))

\* the lines of command output in a text
OutLines(s) == Cardinality({i \in 1..Len(s) : s[i].c \in {"o", "M"}})

\* number of lines, len(str.splitlines())
NumLines(s) ==
    IF s = <<>> THEN 0
    ELSE Cardinality({i \in 1..Len(s) : s[i].c = "nl"})
         + (IF s[Len(s)].c = "nl" THEN 0 ELSE 1)

\* ------------------------------------------------------------ PS1 protocol
\* CmdOutputMetadata.matches_ps1_metadata: the matches of the PS1 regex in
\* a capture, in order.  A match is given by the 1-based position of its
\* "P" character, so match.start() = position - 1 and match.end() = position.
matches_ps1_metadata(s) ==
    LET pos == {i \in 1..Len(s) : s[i].c = "P"}
    IN [k \in 1..Cardinality(pos) |->
           CHOOSE i \in pos : Cardinality({j \in pos : j < i}) = k - 1]

MatchStart(m) == m - 1
MatchEnd(m) == m

\* CmdOutputMetadata.from_ps1_match: the fields parsed from the JSON
from_ps1_match(s, m) == [exit_code |-> s[m].ec, working_dir |-> s[m].wd]

\* CmdOutputMetadata(): no metadata available
UnknownExitCode == -1

\* s.endswith(CMD_OUTPUT_PS1_END): the text ends with the end marker of a
\* PS1 block
EndsWithPS1End(s) == s # <<>> /\ s[Len(s)].c = "P"

\* The prompt function _openhands_ps1 installed by initialize(): it prints
\*   "\n###PS1JSON###\n{ ... }\n###PS1END###\n".
\* `local pid="$!"` runs before `local exit_code="$?"`, so "$?" is read
\* after the builtin `local` has returned: exit_code records the status of
\* `local`, whatever status the last command left.
StatusOfLocal == 0
openhands_ps1_exit_code(status) == StatusOfLocal

\* PS1="$(_openhands_ps1)": command substitution removes the trailing
\* newline, so the prompt is "\n" followed by the block, and what is typed
\* next follows the end marker on the same line.
PS1Prompt(status, dir) == <<NL, Fence(openhands_ps1_exit_code(status), dir)>>

\* ---------------------------------------------------------------- commands
\* The command texts the model draws actions from.
CmdEmpty == <<>>
\* a command that runs for some time and may print (like `sleep 5 && echo x`)
CmdSleep == <<Ch("s"), Ch("l")>>
\* a builtin that changes the working directory to OtherDir
CmdCd == <<Ch("c"), Ch("d")>>
\* the special key C-c
CmdCtrlC == <<Ch("C"), Ch("-"), Ch("c")>>
\* two commands on two lines
CmdMulti == <<Ch("a"), NL, Ch("b")>>
\* a line of text typed to a running process
CmdText == <<Ch("y")>>
CmdBlank == <<Ch("sp")>>

\* BashSession._is_special_key
is_special_key(command) ==
    LET x == Strip(command)
    IN Len(x) = 3 /\ x[1].c = "C" /\ x[2].c = "-"

\* The characters that bash gives a meaning outside quotes and that the
\* escaper looks for, and a construct bashlex does not implement (an
\* arithmetic expansion), written as one character.
MetaChars == {";", "&", "|", ">", "<"}
Unsupported == "$(("

\* The lexer of bashlex over the model's alphabet, as one tag per character:
\* "q" inside single quotes (the quotes included), "w" another character of
\* a word (a backslash and the character it escapes are both of the word),
\* "b" a blank, "o" an operator.  A last tag "open" tells that a quote was
\* not closed.
RECURSIVE LexTags(_, _, _, _)
LexTags(s, i, inq, esc) ==
    IF i > Len(s) THEN (IF inq THEN <<"open">> ELSE <<>>)
    ELSE LET x == s[i].c
         IN IF inq THEN <<"q">> \o LexTags(s, i + 1, x # "'", FALSE)
            ELSE IF esc THEN <<"w">> \o LexTags(s, i + 1, FALSE, FALSE)
            ELSE IF x = "'" THEN <<"q">> \o LexTags(s, i + 1, TRUE, FALSE)
            ELSE IF x = "\\" THEN <<"w">> \o LexTags(s, i + 1, FALSE, TRUE)
            ELSE IF IsSpace(s[i]) THEN <<"b">> \o LexTags(s, i + 1, FALSE, FALSE)
            ELSE IF x \in MetaChars THEN <<"o">> \o LexTags(s, i + 1, FALSE, FALSE)
            ELSE <<"w">> \o LexTags(s, i + 1, FALSE, FALSE)

\* What bashlex.parse raises for a command string: ParsingError for a quote
\* that is not closed and for a control operator with no command before it,
\* NotImplementedError for the construct it does not implement.
NoError == "none"
bashlex_error(commands) ==
    LET t == LexTags(commands, 1, FALSE, FALSE)
        n == Len(commands)
    IN IF Len(t) > n THEN "ParsingError"
       ELSE IF \E i \in 1..n :
                  /\ t[i] = "o"
                  /\ commands[i].c \in {";", "&", "|"}
                  /\ \A j \in 1..(i - 1) :
                        t[j] \in {"w", "q"} =>
                           \E k \in (j + 1)..(i - 1) : t[k] = "o"
            THEN "ParsingError"
       ELSE IF \E i \in 1..n : t[i] = "w" /\ commands[i].c = Unsupported
            THEN "NotImplementedError"
       ELSE NoError

\* the word nodes of a parsed command string in the order of the text, as
\* the pairs (start, end) of node.pos
bashlex_words(commands) ==
    LET t == LexTags(commands, 1, FALSE, FALSE)
        InWord(i) == i \in 1..Len(commands) /\ t[i] \in {"w", "q"}
        starts == {i \in 1..Len(commands) : InWord(i) /\ ~InWord(i - 1)}
        EndOf(i) == MinOf({j \in i..Len(commands) : ~InWord(j + 1)})
    IN [k \in 1..Cardinality(starts) |->
           LET i == CHOOSE x \in starts :
                        Cardinality({y \in starts : y < x}) = k - 1
           IN <<i - 1, EndOf(i)>>]

\* bashlex.parse: the top-level nodes of a command string, as the pairs
\* (start, end) of node.pos.  The model's grammar: one node per line (no
\* text of the model has a newline inside quotes).
bashlex_parse(commands) ==
    LET starts == {i \in 1..Len(commands) :
                      /\ commands[i].c # "nl"
                      /\ (i = 1 \/ commands[i - 1].c = "nl")}
        EndOf(i) == MinOf({j \in i..Len(commands) :
                              j = Len(commands) \/ commands[j + 1].c = "nl"})
    IN [k \in 1..Cardinality(starts) |->
           LET i == CHOOSE x \in starts :
                        Cardinality({y \in starts : y < x}) = k - 1
           IN <<i - 1, EndOf(i)>>]

\* result[-1] += text
AddToLast(result, text) ==
    [result EXCEPT ![Len(result)] = result[Len(result)] \o text]

\* the loop of split_bash_commands over the parsed nodes
RECURSIVE SplitNodes(_, _, _, _)
SplitNodes(commands, nodes, result, last_end) ==
    IF nodes = <<>> THEN [result |-> result, last_end |-> last_end]
    ELSE LET start == Head(nodes)[1]
             end == Head(nodes)[2]
             between == Slice(commands, last_end, start)
             r1 == IF start > last_end
                   THEN IF result # <<>>
                        THEN AddToLast(result, RStrip(between))
                        ELSE IF Strip(between) # <<>>
                             THEN Append(result, RStrip(between))
                             ELSE result
                   ELSE result
             node_command == RStrip(Slice(commands, start, end))
         IN SplitNodes(commands, Tail(nodes), Append(r1, node_command), end)

\* split_bash_commands, and a variant that strips what it returns when the
\* parser fails
split_bash_commands_stripping(commands) ==
    IF Strip(commands) = <<>> THEN <<CmdEmpty>>
    ELSE IF bashlex_error(commands) # NoError THEN <<RStrip(commands)>>
    ELSE LET r == SplitNodes(commands, bashlex_parse(commands), <<>>, 0)
             remaining == RStrip(SliceFrom(commands, r.last_end))
         IN IF r.last_end < Len(commands) /\ r.result # <<>>
            THEN AddToLast(r.result, remaining)
            ELSE IF r.last_end < Len(commands) /\ remaining # <<>>
                 THEN Append(r.result, remaining)
                 ELSE r.result
split_bash_commands(commands) ==
    IF Strip(commands) = <<>> THEN <<CmdEmpty>>
    ELSE IF bashlex_error(commands) # NoError THEN <<commands>>
    ELSE LET r == SplitNodes(commands, bashlex_parse(commands), <<>>, 0)
             remaining == RStrip(SliceFrom(commands, r.last_end))
         IN IF r.last_end < Len(commands) /\ r.result # <<>>
            THEN AddToLast(r.result, remaining)
            ELSE IF r.last_end < Len(commands) /\ remaining # <<>>
                 THEN Append(r.result, remaining)
                 ELSE r.result

\* re.sub(r'\\([;&|><])', r'\\\\\1', text)
RECURSIVE EscapeText(_)
EscapeText(s) ==
    IF s = <<>> THEN <<>>
    ELSE IF Len(s) >= 2 /\ s[1].c = "\\" /\ s[2].c \in {";", "&", "|", ">", "<"}
         THEN <<s[1], s[1], s[2]>> \o EscapeText(SubSeq(s, 3, Len(s)))
         ELSE <<s[1]>> \o EscapeText(Tail(s))

\* the test of visit_node for a word that is kept as it is (the model's
\* alphabet has single quotes only)
IsQuoted(word_text) ==
    /\ word_text # <<>>
    /\ word_text[1].c = "'"
    /\ word_text[Len(word_text)].c = "'"

\* visit_node over the word nodes: the text between the last position and
\* a word is substituted, the word too unless it is quoted from its first
\* to its last character, and what follows the last word is kept
RECURSIVE EscapeWords(_, _, _)
EscapeWords(command_text, words, last_pos) ==
    IF words = <<>> THEN SliceFrom(command_text, last_pos)
    ELSE LET w == Head(words)
             between == Slice(command_text, last_pos, w[1])
             word_text == Slice(command_text, w[1], w[2])
         IN EscapeText(between)
            \o (IF IsQuoted(word_text) THEN word_text
                ELSE EscapeText(word_text))
            \o EscapeWords(command_text, Tail(words), w[2])

\* escape_bash_special_chars, for commands without heredocs
escape_bash_special_chars(command_text) ==
    IF Strip(command_text) = <<>> THEN <<>>
    ELSE IF bashlex_error(command_text) # NoError THEN command_text
    ELSE EscapeWords(command_text, bashlex_words(command_text), 0)

\* ---------------------------------------------------------------- statuses
\* BashCommandStatus, and "none" for prev_status = None
CONTINUE == "continue"
COMPLETED == "completed"
NO_CHANGE_TIMEOUT == "no_change_timeout"
HARD_TIMEOUT == "hard_timeout"
NoStatus == "none"

\* ------------------------------------------------------------ observations
\* A fixed text is one character named by the text.
Text(t) == <<Ch(t)>>

\* action.timeout = None
TimeoutNone == -1

\* CmdOutputMetadata(): exit_code -1, every other field empty.  prefix and
\* suffix name the banner; num_lines, key and timeout are the values the
\* banner cites.
NoMetadata ==
    [exit_code |-> UnknownExitCode, working_dir |-> "", prefix |-> "",
     num_lines |-> 0, suffix |-> "", key |-> "", timeout |-> TimeoutNone]

CmdOutputObservation(content, command, metadata) ==
    [type |-> "CmdOutputObservation", content |-> content,
     command |-> command, metadata |-> metadata]

ErrorObservation(content) ==
    [type |-> "ErrorObservation", content |-> content,
     command |-> CmdEmpty, metadata |-> NoMetadata]

\* execute() raised instead of returning an observation
Raised(what) ==
    [type |-> "raised", content |-> Text(what),
     command |-> CmdEmpty, metadata |-> NoMetadata]

\* no call of execute() has returned yet, or one is in progress
NoObservation ==
    [type |-> "none", content |-> <<>>,
     command |-> CmdEmpty, metadata |-> NoMetadata]

\* ------------------------------------------------------------------ framing
\* _remove_command_prefix
remove_command_prefix(command_output, command) ==
    LStrip(RemovePrefix(LStrip(command_output), LStrip(command)))

\* a variant of the loop of _combine_outputs_between_matches that takes each
\* span from the start of its match
RECURSIVE CombineSpansFromMatch(_, _, _)
CombineSpansFromMatch(pane_content, ps1_matches, i) ==
    IF i > Len(ps1_matches) - 1 THEN <<>>
    ELSE Slice(pane_content, MatchStart(ps1_matches[i]),
               MatchStart(ps1_matches[i + 1]))
         \o <<NL>> \o CombineSpansFromMatch(pane_content, ps1_matches, i + 1)

\* BashSession._combine_outputs_between_matches
RECURSIVE CombineSpans(_, _, _)
CombineSpans(pane_content, ps1_matches, i) ==
    IF i > Len(ps1_matches) - 1 THEN <<>>
    ELSE Slice(pane_content, MatchEnd(ps1_matches[i]) + 1,
               MatchStart(ps1_matches[i + 1]))
         \o <<NL>> \o CombineSpans(pane_content, ps1_matches, i + 1)

\* a variant that returns the capture as it is
combine_outputs_whole_capture(pane_content, ps1_matches, get_content_before_last_match) == pane_content
combine_outputs_between_matches(pane_content, ps1_matches, get_content_before_last_match) ==
    IF Len(ps1_matches) = 1
    THEN IF get_content_before_last_match
         THEN SliceTo(pane_content, MatchStart(ps1_matches[1]))
         ELSE SliceFrom(pane_content, MatchEnd(ps1_matches[1]) + 1)
    ELSE IF Len(ps1_matches) = 0 THEN pane_content
         ELSE CombineSpans(pane_content, ps1_matches, 1)

\* a variant of _get_command_output that leaves the previous output in
get_command_output_again(command, raw_command_output, prefix, continue_prefix, prevout) ==
    [content |-> RStrip(remove_command_prefix(raw_command_output, command)),
     prefix |-> IF prevout # <<>> THEN continue_prefix ELSE prefix,
     prev_output |-> raw_command_output]

\* BashSession._get_command_output: the output with the previous output
\* removed; it returns the content, the metadata prefix and the new
\* prev_output.
get_command_output(command, raw_command_output, prefix, continue_prefix, prevout) ==
    LET command_output == IF prevout # <<>>
                          THEN RemovePrefix(raw_command_output, prevout)
                          ELSE raw_command_output
    IN [content |-> RStrip(remove_command_prefix(command_output, command)),
        prefix |-> IF prevout # <<>> THEN continue_prefix ELSE prefix,
        prev_output |-> raw_command_output]

\* ----------------------------------------------------------------- handlers
\* A handler takes the session fields self = [prev_status, prev_output, cwd]
\* and returns the new fields, the observation (or what was raised) and
\* whether it called _ready_for_next_command.

\* str.upper() of a key
Upper(k) == IF k = "c" THEN "C" ELSE IF k = "z" THEN "Z"
            ELSE IF k = "d" THEN "D" ELSE k

\* the assertion of _handle_completed_command on the matches of the
\* capture, and a variant that asks for the prompt before the command too
asserted_two_matches(ps1_matches) == Len(ps1_matches) >= 2
asserted_matches(ps1_matches) == Len(ps1_matches) >= 1

\* the update of cwd in _handle_completed_command, and a variant that keeps
\* the cwd the session has
updated_cwd_never(self_cwd, working_dir) == self_cwd
updated_cwd(self_cwd, working_dir) ==
    IF working_dir # self_cwd /\ working_dir # ""
    THEN working_dir ELSE self_cwd

\* the match _handle_completed_command reads the metadata from,
\* ps1_matches[-1], and a variant that reads the first match
completion_match_first(ps1_matches) == ps1_matches[1]
completion_match(ps1_matches) == ps1_matches[Len(ps1_matches)]

\* BashSession._handle_completed_command
handle_completed_command(self, command, pane_content, ps1_matches) ==
    IF ~asserted_matches(ps1_matches)
    THEN [self |-> self, obs |-> Raised("AssertionError"), clear |-> FALSE]
    ELSE
    LET special == is_special_key(command)
        metadata == from_ps1_match(pane_content,
                                   completion_match(ps1_matches))
        before == (Len(ps1_matches) = 1)
        newcwd == updated_cwd(self.cwd, metadata.working_dir)
        raw == combine_outputs_between_matches(pane_content, ps1_matches,
                                               before)
        out == get_command_output(command, raw,
                                  IF before THEN "truncated" ELSE "",
                                  "", self.prev_output)
    IN [self |-> [prev_status |-> COMPLETED, prev_output |-> <<>>,
                  cwd |-> newcwd],
        obs |-> CmdOutputObservation(out.content, command,
                  [NoMetadata EXCEPT
                     !.exit_code = metadata.exit_code,
                     !.working_dir = metadata.working_dir,
                     !.prefix = out.prefix,
                     !.num_lines = IF out.prefix = "truncated"
                                   THEN NumLines(raw) ELSE 0,
                     !.suffix = IF special THEN "completed_ctrl"
                                ELSE "completed",
                     !.key = IF special
                             THEN Upper(command[Len(command)].c) ELSE ""]),
        clear |-> TRUE]

\* a variant of the no-change handler that ends like the completion
\* handler: prev_output reset and the screen cleared
nochange_timeout_resetting(self, command, pane_content, ps1_matches) ==
    LET raw == combine_outputs_between_matches(pane_content, ps1_matches,
                                               FALSE)
        out == get_command_output(command, raw, "", "continue",
                                  self.prev_output)
    IN [self |-> [self EXCEPT !.prev_status = NO_CHANGE_TIMEOUT,
                              !.prev_output = <<>>],
        obs |-> CmdOutputObservation(out.content, command,
                  [NoMetadata EXCEPT !.prefix = out.prefix,
                                     !.suffix = "nochange"]),
        clear |-> TRUE]

\* a variant of the no-change handler that takes cwd from the last match, as
\* the completion handler does
nochange_timeout_updating_cwd(self, command, pane_content, ps1_matches) ==
    LET raw == combine_outputs_between_matches(pane_content, ps1_matches,
                                               FALSE)
        out == get_command_output(command, raw, "", "continue",
                                  self.prev_output)
        newcwd == IF Len(ps1_matches) = 0 THEN self.cwd
                  ELSE updated_cwd(self.cwd,
                         from_ps1_match(pane_content,
                           ps1_matches[Len(ps1_matches)]).working_dir)
    IN [self |-> [prev_status |-> NO_CHANGE_TIMEOUT,
                  prev_output |-> out.prev_output,
                  cwd |-> newcwd],
        obs |-> CmdOutputObservation(out.content, command,
                  [NoMetadata EXCEPT !.prefix = out.prefix,
                                     !.suffix = "nochange"]),
        clear |-> FALSE]

\* BashSession._handle_nochange_timeout_command
handle_nochange_timeout_command(self, command, pane_content, ps1_matches) ==
    LET raw == combine_outputs_between_matches(pane_content, ps1_matches,
                                               FALSE)
        out == get_command_output(command, raw, "", "continue",
                                  self.prev_output)
    IN [self |-> [self EXCEPT !.prev_status = NO_CHANGE_TIMEOUT,
                              !.prev_output = out.prev_output],
        obs |-> CmdOutputObservation(out.content, command,
                  [NoMetadata EXCEPT !.prefix = out.prefix,
                                     !.suffix = "nochange"]),
        clear |-> FALSE]

\* a variant of the hard-timeout handler that reports the exit code of the
\* last match of the capture, as the completion handler does
hard_timeout_with_exit_code(self, command, pane_content, ps1_matches, timeout) ==
    LET raw == combine_outputs_between_matches(pane_content, ps1_matches,
                                               FALSE)
        out == get_command_output(command, raw, "", "continue",
                                  self.prev_output)
        code == IF Len(ps1_matches) = 0 THEN UnknownExitCode
                ELSE from_ps1_match(pane_content,
                       ps1_matches[Len(ps1_matches)]).exit_code
    IN [self |-> [self EXCEPT !.prev_status = HARD_TIMEOUT,
                              !.prev_output = out.prev_output],
        obs |-> CmdOutputObservation(out.content, command,
                  [NoMetadata EXCEPT !.exit_code = code,
                                     !.prefix = out.prefix,
                                     !.suffix = "hard",
                                     !.timeout = timeout]),
        clear |-> FALSE]

\* BashSession._handle_hard_timeout_command
handle_hard_timeout_command(self, command, pane_content, ps1_matches, timeout) ==
    LET raw == combine_outputs_between_matches(pane_content, ps1_matches,
                                               FALSE)
        out == get_command_output(command, raw, "", "continue",
                                  self.prev_output)
    IN [self |-> [self EXCEPT !.prev_status = HARD_TIMEOUT,
                              !.prev_output = out.prev_output],
        obs |-> CmdOutputObservation(out.content, command,
                  [NoMetadata EXCEPT !.prefix = out.prefix,
                                     !.suffix = "hard",
                                     !.timeout = timeout]),
        clear |-> FALSE]

\* BashSession._handle_interrupted_command
handle_interrupted_command(self, command, last_pane_output) ==
    LET ps1_matches == matches_ps1_metadata(last_pane_output)
        raw == combine_outputs_between_matches(last_pane_output,
                                               ps1_matches, FALSE)
        out == get_command_output(command, raw, "", "continue",
                                  self.prev_output)
    IN [self |-> [self EXCEPT !.prev_output = out.prev_output],
        obs |-> CmdOutputObservation(out.content, command,
                  [NoMetadata EXCEPT !.prefix = out.prefix,
                                     !.suffix = "not_executed"]),
        clear |-> FALSE]

\* a variant of in_continuing_state that also accepts a session that has run
\* no command yet
in_continuing_state_or_none(status) ==
    status \in {NoStatus, CONTINUE, NO_CHANGE_TIMEOUT, HARD_TIMEOUT}
\* a variant of in_continuing_state that also accepts COMPLETED
in_continuing_state_or_completed(status) ==
    status \in {CONTINUE, NO_CHANGE_TIMEOUT, HARD_TIMEOUT, COMPLETED}

\* the test of _handle_empty_command and _handle_input_command: the
\* previous command is in a continuing state
in_continuing_state(status) ==
    status \in {CONTINUE, NO_CHANGE_TIMEOUT, HARD_TIMEOUT}

\* a variant of previous_command_running that knows the hard timeout only
previous_command_running_hard_only(status, last_pane_output) ==
    /\ status = HARD_TIMEOUT
    /\ ~EndsWithPS1End(last_pane_output)

\* the test of _handle_normal_command: the previous command timed out and
\* the pane does not end with a PS1 block
previous_command_running(status, last_pane_output) ==
    /\ status \in {HARD_TIMEOUT, NO_CHANGE_TIMEOUT}
    /\ ~EndsWithPS1End(last_pane_output)

\* `if action.timeout`: None and 0 are both false
TimeoutIsSet(timeout) == timeout # TimeoutNone /\ timeout # 0

\* a variant of poll_exit without the hard-timeout exit
poll_exit_without_hard_timeout(cur_pane_output, blocking, timeout, time_since_last_change, elapsed, no_change_timeout_seconds) ==
    IF EndsWithPS1End(RStrip(cur_pane_output)) THEN COMPLETED
    ELSE IF ~blocking /\ time_since_last_change >= no_change_timeout_seconds
         THEN NO_CHANGE_TIMEOUT
         ELSE "sleep"

\* a variant of poll_exit that tests the hard timeout before the no-change
\* timeout
poll_exit_hard_timeout_first(cur_pane_output, blocking, timeout, time_since_last_change, elapsed, no_change_timeout_seconds) ==
    IF EndsWithPS1End(RStrip(cur_pane_output)) THEN COMPLETED
    ELSE IF TimeoutIsSet(timeout) /\ elapsed >= timeout
         THEN HARD_TIMEOUT
         ELSE IF ~blocking
                 /\ time_since_last_change >= no_change_timeout_seconds
              THEN NO_CHANGE_TIMEOUT
              ELSE "sleep"

\* a variant of poll_exit whose no-change exit does not look at blocking
poll_exit_ignoring_blocking(cur_pane_output, blocking, timeout, time_since_last_change, elapsed, no_change_timeout_seconds) ==
    IF EndsWithPS1End(RStrip(cur_pane_output)) THEN COMPLETED
    ELSE IF time_since_last_change >= no_change_timeout_seconds
         THEN NO_CHANGE_TIMEOUT
         ELSE IF TimeoutIsSet(timeout) /\ elapsed >= timeout
              THEN HARD_TIMEOUT
              ELSE "sleep"

\* One iteration of the loop of _poll_for_command_completion, after the
\* capture: which of the three exits is taken, or "sleep".
poll_exit(cur_pane_output, blocking, timeout, time_since_last_change, elapsed, no_change_timeout_seconds) ==
    IF EndsWithPS1End(RStrip(cur_pane_output)) THEN COMPLETED
    ELSE IF ~blocking /\ time_since_last_change >= no_change_timeout_seconds
         THEN NO_CHANGE_TIMEOUT
         ELSE IF TimeoutIsSet(timeout) /\ elapsed >= timeout
              THEN HARD_TIMEOUT
              ELSE "sleep"

\* -------------------------------------------------------------------- state
VARIABLES
    initialized,                \* BashSession._initialized
    closed,                     \* BashSession._closed
    close_calls,                \* history: calls of close()
    kill_session_calls,         \* history: calls of session.kill_session()
    NO_CHANGE_TIMEOUT_SECONDS,  \* set by the constructor
    prev_status, prev_output, cwd,   \* session fields (cwd is _cwd)
    pc,                 \* "ready": no call in progress; "poll", "sleep":
                        \* inside the loop of _poll_for_command_completion
    action,             \* the fields of its action parameter the polling
                        \* loop reads: [blocking, timeout]
    command,            \* the command given to _poll_for_command_completion
    elapsed,            \* time.time() - start_time
    since_change,       \* time.time() - last_change_time
    last_pane_output,   \* the local of the polling loop
    obs,                \* what the last call of execute() returned or raised
                        \* (NoObservation while a call is in progress)
    due,                \* history: which deadlines had expired at the poll
                        \* through which the last call left the loop
    reported,           \* history: the lines of output the observations
                        \* have held since the pane was last cleared
    should_continue,    \* shutdown_listener.should_continue()
    pane,               \* the text of the tmux pane (scrollback and screen)
    sh,                 \* the shell in the pane: [state, job, intr, outs,
                        \* status, cwd, tty, typed]
    tree,               \* a session seen with its process tree: username,
                        \* procs (the processes of the pane: [pane_pid,
                        \* alive, denied]), proc_pane (the text of its
                        \* pane), session_closed (its _closed), stop_obs
                        \* (what its last Stop action returned), last_kill
                        \* (history: the last run of kill_all_processes)
    texts,              \* a command text given to the splitter, the escaper
                        \* and the engine: input_text, split_result,
                        \* escape_result and sent_keys (what
                        \* _handle_normal_command did with it)
    handler,            \* an action given to Runtime._handle_action: event
                        \* ([type, mentions_token, timeout, blocking]),
                        \* github_user_id (whether it is set), latest_token
                        \* (what get_latest_token() does), method_raises
                        \* (whether the method that runs the action
                        \* raises), handed (history: the actions given to
                        \* run / run_action), stream (the observations
                        \* added to the event stream: [observation, cause])
                        \* and error_messages (send_error_message calls)
    pair,               \* two sessions on one host: session_users,
                        \* initialized_sessions, session_dirs, user_txt
                        \* (the file /tmp/user.txt: [content, owner]),
                        \* parsed (the metadata each session parsed from
                        \* its last prompt: [done, username, working_dir])
    frame,              \* a capture given to the framing routine:
                        \* pane_content, running and completed (what
                        \* _combine_outputs_between_matches returned with
                        \* get_content_before_last_match False and True)
    finish,             \* a capture given to the two tests of "the
                        \* previous command has finished": prev_status,
                        \* pane_content, normal (what _handle_normal_command
                        \* did: "interrupted" or "typed") and polled (the
                        \* exit the polling loop took)
    startup             \* a call of
                        \* get_action_execution_server_startup_command: its
                        \* arguments (plugins, browsergym_eval_env,
                        \* run_as_openhands, sandbox_user_id,
                        \* use_nice_for_root, override_user_id,
                        \* override_username) and what it returned (cmd)

engine == <<initialized, closed, close_calls, kill_session_calls,
            NO_CHANGE_TIMEOUT_SECONDS, prev_status, prev_output,
            cwd, pc, action, command, elapsed, since_change,
            last_pane_output, obs, due, reported>>
session == <<engine, should_continue, pane, sh>>
rest == <<frame, finish, startup>>
aux == <<tree, texts, handler, pair, rest>>
vars == <<initialized, closed, close_calls, kill_session_calls,
          NO_CHANGE_TIMEOUT_SECONDS, prev_status, prev_output,
          cwd, pc, action, command, elapsed, since_change, last_pane_output,
          obs, due, reported, should_continue, pane, sh, aux>>

Self == [prev_status |-> prev_status, prev_output |-> prev_output,
         cwd |-> cwd]

\* the clocks saturate at the largest deadline
ClockCap == IF MaxTimeout > MaxNoChange THEN MaxTimeout ELSE MaxNoChange
Later(t, d) == IF t + d > ClockCap THEN ClockCap ELSE t + d

\* ---------------------------------------------------- the shell in the pane
\* sh.state: "idle" (readline waits at the prompt) or "running" (a foreground
\* job runs); sh.job: the command line of the job; sh.intr: the signal the
\* job has received; sh.outs: the chunks it has printed; sh.status: $? at
\* the prompt (nothing reads it while a job runs, where the model keeps 0);
\* sh.cwd: the directory the shell is in; sh.tty: the lines typed while the
\* job runs and not read yet; sh.typed: send_keys calls since the last clear.
IdleShell(dir) ==
    [state |-> "idle", job |-> CmdEmpty, intr |-> "none", outs |-> 0,
     status |-> 0, cwd |-> dir, tty |-> <<>>, typed |-> 0]

\* the exit status a job ends with
ExitStatuses(job, intr) ==
    IF intr = "int" THEN {130}
    ELSE IF intr = "kill" THEN {137}
    ELSE IF job = CmdSleep THEN {0, 1}
    ELSE {0}

\* the directory the shell is in after a job
DirAfter(job, intr, dir) ==
    IF job = CmdCd /\ intr = "none" THEN OtherDir ELSE dir

\* whether the job runs in processes of its own (a builtin does not)
HasProcesses(job) == job # CmdCd

\* BashSession._get_pane_content: the lines of capture-pane, right-stripped
\* and joined by newlines; the empty lines below the cursor are not part of
\* the capture.
get_pane_content(p) == RStrip(p)

\* pane.send_keys(text, enter): what the terminal and the shell do with it
send_keys(p, s, text, enter) ==
    IF ~enter
    THEN \* a control key; the model types C-c only
         IF s.state = "idle"
         THEN [pane |-> p \o <<Ch("^C"), NL>> \o PS1Prompt(130, s.cwd),
               sh |-> [s EXCEPT !.status = 130, !.typed = @ + 1]]
         ELSE [pane |-> p \o <<Ch("^C"), NL>>,
               sh |-> [s EXCEPT !.intr = IF @ = "none" THEN "int" ELSE @,
                                !.typed = @ + 1]]
    ELSE IF s.state = "idle"
         THEN [pane |-> p \o text \o <<NL>>,
               sh |-> [s EXCEPT !.state = "running", !.job = text,
                                !.intr = "none", !.outs = 0, !.status = 0,
                                !.typed = @ + 1]]
         ELSE [pane |-> p \o text \o <<NL>>,
               sh |-> [s EXCEPT !.tty = Append(@, text), !.typed = @ + 1]]

\* whether send_keys stays within the bounds of the model
CanType(s) == s.typed < MaxTyped

\* BashSession._clear_screen: C-l, then clear-history.  At the prompt
\* readline clears the screen and draws the prompt again; while a job runs
\* the terminal echoes the key and the screen stays.
LastFence(p) == p[MaxOf({i \in 1..Len(p) : p[i].c = "P"})]
\* a variant that sends C-l and leaves the history as it is: the capture
\* still holds the lines that left the screen
clear_screen_keeping_history(p, s) ==
    IF s.state = "idle"
    THEN [pane |-> p, sh |-> [s EXCEPT !.typed = 0]]
    ELSE [pane |-> p \o <<Ch("^L")>>, sh |-> s]
clear_screen(p, s) ==
    IF s.state = "idle"
    THEN [pane |-> <<NL, LastFence(p)>>, sh |-> [s EXCEPT !.typed = 0]]
    ELSE [pane |-> p \o <<Ch("^L")>>, sh |-> s]

\* The processes of a pane.  tmux starts the pane process: the shell
\* itself, or su, which forks and waits for the shell it starts.  "cmd" is
\* the foreground command, "sub" a child of it, "job" a background job
\* that an earlier command left.
ProcNames == {"su", "bash", "cmd", "sub", "job"}
Parent(n) ==
    CASE n = "bash" -> "su"
      [] n = "cmd" -> "bash"
      [] n = "sub" -> "cmd"
      [] n = "job" -> "bash"
      [] OTHER -> "tmux"
RECURSIVE IsBelow(_, _)
IsBelow(n, root) ==
    /\ n \in ProcNames
    /\ n # root
    /\ Parent(n) = root \/ IsBelow(Parent(n), root)

\* psutil.Process(pid).children(recursive=True)
children(t, pid) == {n \in t.alive : IsBelow(n, pid)}

\* BashSession.get_running_processes, its process_pids: nothing when the
\* capture holds a PS1 block and ends with one (the "clean state") or the
\* pane process is gone, else the pane process and all that is below it
get_running_processes(pane_content, t) ==
    LET is_command_running == ~EndsWithPS1End(RStrip(pane_content))
        clean == Len(matches_ps1_metadata(pane_content)) > 0
                 /\ ~is_command_running
    IN IF clean \/ t.pane_pid \notin t.alive THEN {}
       ELSE {t.pane_pid} \cup children(t, t.pane_pid)

\* the pids kill_all_processes passes to kill_process
kill_targets(process_pids, pane_pid) == process_pids \ {pane_pid}

\* BashSession.kill_all_processes on a process table: every listed pid but
\* the pane's is given to kill_process.  A process that has exited since
\* the listing (NoSuchProcess) gets no signal, one of another user gets
\* none either (AccessDenied), the others die of SIGKILL; success tells
\* whether one did.
kill_all_processes_in(pane_content, t) ==
    LET targets == kill_targets(get_running_processes(pane_content, t),
                                t.pane_pid)
    IN {[exited |-> gone,
         signalled |-> targets \ gone,
         killed |-> (targets \ gone) \ t.denied,
         success |-> (targets \ gone) \ t.denied # {}] :
          gone \in SUBSET targets}

\* the process table of the session of the engine: username is None, the
\* pane process is the shell, and a job that is no builtin is one process
ProcessTable(s) ==
    [pane_pid |-> "bash",
     alive |-> IF s.state = "absent" THEN {}
               ELSE IF s.state = "running" /\ HasProcesses(s.job)
               THEN {"bash", "cmd"}
               ELSE {"bash"},
     denied |-> {}]

\* BashSession.kill_all_processes in the engine: the outcomes as the new
\* shell state and whether a kill succeeded
kill_all_processes(p, s) ==
    {[sh |-> IF "cmd" \in k.killed THEN [s EXCEPT !.intr = "kill"] ELSE s,
      success |-> k.success] :
       k \in kill_all_processes_in(get_pane_content(p), ProcessTable(s))}

\* ------------------------------------------------------------------ actions
\* The actions a caller passes to execute().  execute() and the handlers
\* dispatch on the type, the command and is_input; blocking and timeout are
\* read by the polling loop alone, and the model draws them when polling
\* starts.
CmdRunAction(c, i) ==
    [type |-> "CmdRunAction", command |-> c, is_input |-> i]

NormalCommands == {CmdSleep, CmdCd, CmdMulti}
InputCommands == {CmdText, CmdCtrlC}
CmdRunActions ==
    {CmdRunAction(c, FALSE) : c \in NormalCommands}
    \cup {CmdRunAction(c, TRUE) : c \in InputCommands}
    \cup {CmdRunAction(CmdEmpty, i) : i \in BOOLEAN}
    \cup {CmdRunAction(CmdBlank, TRUE)}
StopProcessesAction ==
    [type |-> "StopProcessesAction", command |-> CmdEmpty, is_input |-> FALSE]
OtherAction ==
    [type |-> "MessageAction", command |-> CmdEmpty, is_input |-> FALSE]
Actions == CmdRunActions \cup {StopProcessesAction, OtherAction}

\* The actions of the model have few command texts: what execute() and the
\* handlers compute from the text alone, action.command.strip(),
\* split_bash_commands and escape_bash_special_chars of the stripped
\* command, is computed once for each text.
CommandTexts == {a.command : a \in Actions}
command_strip == [c \in CommandTexts |-> Strip(c)]
StrippedTexts == {command_strip[c] : c \in CommandTexts}
splited_commands_of == [c \in StrippedTexts |-> split_bash_commands(c)]
escaped_of == [c \in StrippedTexts |-> escape_bash_special_chars(c)]

\* action.timeout: None, or a number of poll intervals
Timeouts == {TimeoutNone} \cup (0..MaxTimeout)
\* the fields of the action _poll_for_command_completion reads
PollFields == [blocking : BOOLEAN, timeout : Timeouts]
NoAction == [blocking |-> FALSE, timeout |-> TimeoutNone]
\* no deadline had expired, or the call did not leave through the loop
NoDue == [no_change |-> FALSE, hard |-> FALSE]

\* ---------------------------------------------------------------- behaviour
\* the state after BashSession.__init__
EngineInit ==
    /\ initialized = FALSE
    /\ closed = FALSE
    /\ close_calls = 0
    /\ kill_session_calls = 0
    /\ NO_CHANGE_TIMEOUT_SECONDS \in 0..MaxNoChange
    /\ prev_status = NoStatus
    /\ prev_output = <<>>
    /\ cwd = ""
    /\ pc = "ready"
    /\ action = NoAction
    /\ command = CmdEmpty
    /\ elapsed = 0
    /\ since_change = 0
    /\ last_pane_output = <<>>
    /\ obs = NoObservation
    /\ due = NoDue
    /\ reported = 0
    /\ should_continue = TRUE
    /\ pane = <<>>
    /\ sh = [IdleShell(WorkDir) EXCEPT !.state = "absent"]

\* no session is looked at with its process tree
NoUser == "None"
NoKill == [op |-> "none", exited |-> {}, signalled |-> {}, killed |-> {},
           success |-> FALSE, left |-> {}]
TreeIdle ==
    tree = [username |-> NoUser,
            procs |-> [pane_pid |-> "bash", alive |-> {}, denied |-> {}],
            proc_pane |-> <<>>, session_closed |-> FALSE,
            stop_obs |-> NoObservation, last_kill |-> NoKill]

\* no text has been given
NotRun == [done |-> FALSE, value |-> <<>>]
Result(v) == [done |-> TRUE, value |-> v]
TextOf(t) ==
    [input_text |-> t, split_result |-> NotRun, escape_result |-> NotRun,
     sent_keys |-> NotRun]
TextIdle == texts = TextOf(<<>>)

\* no action has been given to the handler
NoEvent == [type |-> "none", mentions_token |-> FALSE, timeout |-> TimeoutNone,
            blocking |-> FALSE, id |-> 0, runnable |-> FALSE, think |-> FALSE,
            confirmation_state |-> "none", known |-> FALSE,
            supported |-> FALSE]
HandlerIdle ==
    handler = [event |-> NoEvent, github_user_id |-> FALSE,
               latest_token |-> "none", method_raises |-> FALSE,
               handed |-> <<>>, stream |-> <<>>, error_messages |-> 0]

\* the two sessions are not looked at
Sessions == {1, 2}
NoFile == [content |-> "", owner |-> ""]
NotParsed == [done |-> FALSE, username |-> "", working_dir |-> ""]
PairOf(users) ==
    [session_users |-> users, initialized_sessions |-> {},
     session_dirs |-> [i \in Sessions |-> WorkDir], user_txt |-> NoFile,
     parsed |-> [i \in Sessions |-> NotParsed]]
PairIdle == pair = PairOf([i \in Sessions |-> "root"])

\* no capture has been given to the framing routine
FrameOf(t) == [pane_content |-> t, running |-> NotRun, completed |-> NotRun]
FrameIdle == frame = FrameOf(<<>>)

\* no capture has been given to the two tests
NotTested == "none"
FinishOf(status, t) ==
    [prev_status |-> status, pane_content |-> t, normal |-> NotTested,
     polled |-> NotTested]
FinishIdle == finish = FinishOf(NoStatus, <<>>)

\* the startup command has not been asked for.  An optional argument is
\* None (some is false) or a value.
None(v) == [some |-> FALSE, value |-> v]
Some(v) == [some |-> TRUE, value |-> v]
NoCommand == [done |-> FALSE, wrapper |-> <<>>, argv |-> <<>>]
StartupIdle ==
    startup = [plugins |-> <<>>, browsergym_eval_env |-> None(""),
               run_as_openhands |-> FALSE, sandbox_user_id |-> 0,
               use_nice_for_root |-> TRUE, override_user_id |-> None(0),
               override_username |-> None(""), cmd |-> NoCommand]
RestIdle == FrameIdle /\ FinishIdle /\ StartupIdle

Init ==
    /\ EngineInit
    /\ TreeIdle
    /\ TextIdle
    /\ HandlerIdle
    /\ PairIdle
    /\ RestIdle

\* BashSession.initialize: the shell starts in work_dir, the prompt function
\* is installed and the screen cleared
Initialize ==
    /\ ~initialized
    /\ UNCHANGED aux
    /\ pc = "ready"
    /\ pane' = PS1Prompt(0, WorkDir)
    /\ sh' = IdleShell(WorkDir)
    /\ prev_status' = NoStatus
    /\ prev_output' = <<>>
    /\ cwd' = WorkDir
    /\ initialized' = TRUE
    /\ closed' = FALSE
    /\ UNCHANGED <<close_calls, kill_session_calls,
                   NO_CHANGE_TIMEOUT_SECONDS, pc, action, command, elapsed,
                   since_change, last_pane_output, obs, due, reported, should_continue>>

\* BashSession.initialize raises part-way (the tmux server, the session or
\* the window cannot be made): the fields initialize() sets at its end,
\* _closed among them, stay unset.  The shell may have been started in its
\* pane already.
InitializeFails ==
    /\ ~initialized
    /\ UNCHANGED aux
    /\ pc = "ready"
    /\ obs' = Raised("LibTmuxException")
    /\ \/ UNCHANGED <<pane, sh>>
       \/ pane' = <<>> /\ sh' = IdleShell(WorkDir)
    /\ UNCHANGED <<initialized, closed, close_calls, kill_session_calls,
                   NO_CHANGE_TIMEOUT_SECONDS, prev_status, prev_output, cwd,
                   pc, action, command, elapsed, since_change,
                   last_pane_output, due, reported, should_continue>>

\* a call returns (or raises) without polling
Return(r) ==
    /\ pc' = "ready"
    /\ \E returned \in {r} :
          /\ obs' = returned.obs
          /\ prev_status' = returned.self.prev_status
          /\ prev_output' = returned.self.prev_output
          /\ cwd' = returned.self.cwd
          /\ reported' = reported + OutLines(returned.obs.content)
    /\ due' = NoDue
    /\ UNCHANGED <<initialized, closed, close_calls, kill_session_calls,
                   NO_CHANGE_TIMEOUT_SECONDS, action, command,
                   elapsed, since_change, last_pane_output, should_continue>>

\* _poll_for_command_completion returns or raises: its parameters and
\* locals are gone
LocalsGone ==
    /\ action' = NoAction
    /\ command' = CmdEmpty
    /\ elapsed' = 0
    /\ since_change' = 0
    /\ last_pane_output' = <<>>

FatalError == Raised("RuntimeError: Bash session was likely interrupted")

\* _poll_for_command_completion up to the first test of the loop: the
\* clocks start, the pane is captured and should_continue() is tested
StartPolling(cmd, p) ==
    /\ IF should_continue
       THEN /\ pc' = "poll"
            /\ command' = cmd
            /\ action' \in PollFields
            /\ elapsed' = 0
            /\ since_change' = 0
            /\ last_pane_output' = get_pane_content(p)
            /\ obs' = NoObservation
       ELSE /\ pc' = "ready"
            /\ obs' = FatalError
            /\ LocalsGone
    /\ due' = NoDue
    /\ UNCHANGED <<initialized, closed, close_calls, kill_session_calls,
                   NO_CHANGE_TIMEOUT_SECONDS, prev_status,
                   prev_output, cwd, reported, should_continue>>

\* BashSession._handle_empty_command
HandleEmptyCommand(a) ==
    IF ~in_continuing_state(prev_status)
    THEN /\ Return([self |-> Self,
                    obs |-> CmdOutputObservation(
                      Text("ERROR: No previous running command to retrieve logs from."),
                      CmdEmpty, NoMetadata)])
         /\ UNCHANGED <<pane, sh>>
    ELSE /\ StartPolling(CmdEmpty, pane)
         /\ UNCHANGED <<pane, sh>>

\* BashSession._handle_input_command
HandleInputCommand(a) ==
    \E cmd \in {command_strip[a.command]} :
       IF ~in_continuing_state(prev_status)
       THEN /\ Return([self |-> Self,
                       obs |-> CmdOutputObservation(
                         Text("ERROR: No previous running command to interact with."),
                         CmdEmpty, NoMetadata)])
            /\ UNCHANGED <<pane, sh>>
       ELSE \E typed \in {send_keys(pane, sh, cmd, ~is_special_key(cmd))} :
            /\ CanType(sh)
            /\ pane' = typed.pane
            /\ sh' = typed.sh
            /\ StartPolling(cmd, typed.pane)

\* the test of _handle_normal_command on what the splitter returned, and a
\* variant of it that lets two commands pass
too_many_commands_over_two(splited_commands) == Len(splited_commands) > 2
too_many_commands(splited_commands) == Len(splited_commands) > 1

\* "(i) cmd" for every command, joined by newlines
RECURSIVE NumberedFrom(_, _)
NumberedFrom(i, cmds) ==
    IF cmds = <<>> THEN <<>>
    ELSE <<[c |-> "(i)", ec |-> i, wd |-> ""]>> \o Head(cmds)
         \o (IF Tail(cmds) = <<>> THEN <<>> ELSE <<NL>>)
         \o NumberedFrom(i + 1, Tail(cmds))
\* the observation that refuses several commands in one action
MultipleCommandsError(splited_commands) ==
    ErrorObservation(Text("ERROR: Cannot execute multiple commands at once.")
                     \o <<NL>> \o NumberedFrom(1, splited_commands))

\* BashSession._handle_normal_command
HandleNormalCommand(a) ==
    \E cmd \in {command_strip[a.command]} :
    \E last \in {get_pane_content(pane)} :
       IF previous_command_running(prev_status, last)
       THEN \E r \in {handle_interrupted_command(Self, cmd, last)} :
            /\ Return(r)
            /\ UNCHANGED <<pane, sh>>
       ELSE \E splited_commands \in {splited_commands_of[cmd]} :
            IF too_many_commands(splited_commands)
            THEN /\ Return([self |-> Self,
                            obs |-> MultipleCommandsError(splited_commands)])
                 /\ UNCHANGED <<pane, sh>>
            ELSE \E escaped \in {escaped_of[cmd]} :
                 \E typed \in {send_keys(pane, sh, escaped,
                                         ~is_special_key(cmd))} :
                    /\ CanType(sh)
                    /\ pane' = typed.pane
                    /\ sh' = typed.sh
                    /\ StartPolling(escaped, typed.pane)

\* The path execute() takes for a CmdRunAction, and a variant that tests
\* is_input before the empty command.
dispatch_input_first(cmd, is_input) ==
    IF is_input THEN "input"
    ELSE IF cmd = CmdEmpty THEN "empty"
    ELSE "normal"
dispatch(cmd, is_input) ==
    IF cmd = CmdEmpty THEN "empty"
    ELSE IF is_input THEN "input"
    ELSE "normal"

\* what execute() returns for a StopProcessesAction, and a variant that
\* reports a kill whatever happened
StopObservationAlways(success) ==
    CmdOutputObservation(Text("All running processes have been terminated"),
                         CmdEmpty, NoMetadata)
StopObservation(success) ==
    CmdOutputObservation(
        IF success THEN Text("All running processes have been terminated")
        ELSE Text("No processes were terminated"),
        CmdEmpty, NoMetadata)

\* the test execute() makes of _initialized, and a variant that lets every
\* session pass
session_ready_always(is_initialized) == TRUE
session_ready(is_initialized) == is_initialized

\* BashSession.execute.  A caller does not call execute() on a session it
\* has closed.
Execute(a) ==
    /\ pc = "ready"
    /\ UNCHANGED aux
    /\ ~closed
    /\ IF ~session_ready(initialized)
       THEN /\ Return([self |-> Self,
                       obs |-> Raised("RuntimeError: Bash session is not initialized")])
            /\ UNCHANGED <<pane, sh>>
       ELSE IF a.type = "StopProcessesAction"
       THEN \E k \in kill_all_processes(pane, sh) :
               /\ Return([self |-> Self,
                          obs |-> StopObservation(k.success)])
               /\ sh' = k.sh
               /\ UNCHANGED pane
       ELSE IF a.type # "CmdRunAction"
       THEN /\ Return([self |-> Self,
                       obs |-> ErrorObservation(
                                 Text("Unsupported action type"))])
            /\ UNCHANGED <<pane, sh>>
       ELSE \E path \in {dispatch(command_strip[a.command], a.is_input)} :
            IF path = "empty" THEN HandleEmptyCommand(a)
            ELSE IF path = "input" THEN HandleInputCommand(a)
            ELSE HandleNormalCommand(a)

\* the body of the loop of _poll_for_command_completion, up to the sleep
Poll ==
    /\ pc = "poll"
    /\ UNCHANGED aux
    /\ UNCHANGED <<initialized, closed, close_calls, kill_session_calls,
                   NO_CHANGE_TIMEOUT_SECONDS, should_continue>>
    /\ \E cur_pane_output \in {get_pane_content(pane)} :
       \E ps1_matches \in {matches_ps1_metadata(cur_pane_output)} :
       \E time_since_last_change \in
             {IF cur_pane_output # last_pane_output THEN 0 ELSE since_change} :
       \E exit \in {poll_exit(cur_pane_output, action.blocking, action.timeout,
                              time_since_last_change, elapsed,
                              NO_CHANGE_TIMEOUT_SECONDS)} :
       LET handled == IF exit = COMPLETED
                THEN handle_completed_command(Self, command, cur_pane_output,
                                              ps1_matches)
                ELSE IF exit = NO_CHANGE_TIMEOUT
                THEN handle_nochange_timeout_command(Self, command,
                                                     cur_pane_output,
                                                     ps1_matches)
                ELSE handle_hard_timeout_command(Self, command,
                                                 cur_pane_output, ps1_matches,
                                                 action.timeout)
       IN IF exit = "sleep"
          THEN /\ pc' = "sleep"
               /\ last_pane_output' = cur_pane_output
               /\ since_change' = time_since_last_change
               /\ UNCHANGED <<prev_status, prev_output, cwd, obs, due, reported,
                              action, command, elapsed, pane, sh>>
          ELSE \E r \in {handled} :
               \E cleared \in {IF r.clear THEN clear_screen(pane, sh)
                                ELSE [pane |-> pane, sh |-> sh]} :
               /\ pc' = "ready"
               /\ LocalsGone
               /\ prev_status' = r.self.prev_status
               /\ prev_output' = r.self.prev_output
               /\ cwd' = r.self.cwd
               /\ obs' = r.obs
               /\ reported' = IF r.clear THEN 0
                               ELSE reported + OutLines(r.obs.content)
               /\ due' = [no_change |-> ~action.blocking
                                        /\ time_since_last_change
                                             >= NO_CHANGE_TIMEOUT_SECONDS,
                          hard |-> TimeoutIsSet(action.timeout)
                                   /\ elapsed >= action.timeout]
               /\ pane' = cleared.pane
               /\ sh' = cleared.sh

\* a variant of the loop that goes on polling after the shutdown
SleepIgnoringShutdown ==
    /\ pc = "sleep"
    /\ UNCHANGED aux
    /\ \E d \in 1..MaxSleep :
          /\ elapsed' = Later(elapsed, d)
          /\ since_change' = Later(since_change, d)
    /\ pc' = "poll"
    /\ UNCHANGED <<action, command, last_pane_output, obs, due, reported>>
    /\ UNCHANGED <<initialized, closed, close_calls, kill_session_calls,
                   NO_CHANGE_TIMEOUT_SECONDS, prev_status,
                   prev_output, cwd, should_continue, pane, sh>>

\* time.sleep(POLL_INTERVAL), at least one poll interval, and the next test
\* of should_continue(): the loop goes on, or the fatal error is raised
Sleep ==
    /\ pc = "sleep"
    /\ UNCHANGED aux
    /\ IF should_continue
       THEN /\ \E d \in 1..MaxSleep :
                  /\ elapsed' = Later(elapsed, d)
                  /\ since_change' = Later(since_change, d)
            /\ pc' = "poll"
            /\ UNCHANGED <<action, command, last_pane_output, obs, due, reported>>
       ELSE /\ pc' = "ready"
            /\ obs' = FatalError
            /\ due' = NoDue
            /\ reported' = reported
            /\ LocalsGone
    /\ UNCHANGED <<initialized, closed, close_calls, kill_session_calls,
                   NO_CHANGE_TIMEOUT_SECONDS, prev_status,
                   prev_output, cwd, should_continue, pane, sh>>

\* The running job prints a chunk of output: a plain line, a line that
\* quotes the PS1 markers in mid-line (as a search of this source file
\* prints), or more than HISTORY_LIMIT lines, so that the lines before the
\* last one have left the pane's history.  No line of output ends with the
\* end marker or begins with the JSON marker.
OutputLines == {Ch("o"), Ch("M")}
HistoryEvicted(p, line) == <<line, NL>>
ShellOutput ==
    /\ sh.state = "running"
    /\ UNCHANGED aux
    /\ sh.job = CmdSleep
    /\ sh.outs < MaxOut
    /\ \/ \E line \in OutputLines : pane' = pane \o <<line, NL>>
       \/ pane' = HistoryEvicted(pane, Ch("o"))
    /\ sh' = [sh EXCEPT !.outs = @ + 1]
    /\ UNCHANGED <<engine, should_continue>>

\* the running job reads a line that was typed to it
ShellReadInput ==
    /\ sh.state = "running"
    /\ UNCHANGED aux
    /\ sh.tty # <<>>
    /\ sh' = [sh EXCEPT !.tty = Tail(@)]
    /\ UNCHANGED <<engine, should_continue, pane>>

\* the running job ends: the shell sets $?, prints the prompt and, when a
\* line was typed ahead, reads it and runs it as the next command
ShellFinish ==
    /\ sh.state = "running"
    /\ UNCHANGED aux
    /\ \E status \in ExitStatuses(sh.job, sh.intr) :
          LET dir == DirAfter(sh.job, sh.intr, sh.cwd)
              prompt == pane \o PS1Prompt(status, dir)
          IN IF sh.tty = <<>>
             THEN /\ pane' = prompt
                  /\ sh' = [sh EXCEPT !.state = "idle", !.job = CmdEmpty,
                                      !.intr = "none", !.outs = 0,
                                      !.status = status, !.cwd = dir]
             ELSE /\ pane' = prompt \o Head(sh.tty) \o <<NL>>
                  /\ sh' = [sh EXCEPT !.job = Head(sh.tty), !.tty = Tail(@),
                                      !.intr = "none", !.outs = 0,
                                      !.status = 0, !.cwd = dir]
    /\ UNCHANGED <<engine, should_continue>>

\* the process is asked to shut down: should_continue() is false from now on
Shutdown ==
    /\ should_continue
    /\ UNCHANGED aux
    /\ should_continue' = FALSE
    /\ UNCHANGED <<engine, pane, sh>>

\* BashSession.close (and __del__, which calls it) between two calls of
\* execute(): the first close kills the processes and the tmux session
session_kill_session(s) == [IdleShell(s.cwd) EXCEPT !.state = "absent"]
\* a variant of close() without the test of _closed
CloseUnguarded ==
    /\ pc = "ready"
    /\ UNCHANGED aux
    /\ IF ~initialized
       THEN /\ obs' = Raised("AttributeError: _closed")
            /\ UNCHANGED <<closed, close_calls, kill_session_calls, pane, sh>>
       ELSE /\ close_calls < MaxClose
            /\ close_calls' = close_calls + 1
            /\ obs' = obs
            /\ \E k \in kill_all_processes(pane, sh) :
                 /\ sh' = session_kill_session(k.sh)
                 /\ pane' = <<>>
                 /\ kill_session_calls' = kill_session_calls + 1
                 /\ closed' = TRUE
    /\ UNCHANGED <<initialized, NO_CHANGE_TIMEOUT_SECONDS, prev_status,
                   prev_output, cwd, pc, action, command, elapsed,
                   since_change, last_pane_output, due, reported, should_continue>>
Close ==
    /\ pc = "ready"
    /\ UNCHANGED aux
    /\ IF ~initialized
       THEN \* the attribute _closed does not exist before initialize() sets it
            /\ obs' = Raised("AttributeError: _closed")
            /\ UNCHANGED <<closed, close_calls, kill_session_calls, pane, sh>>
       ELSE /\ close_calls < MaxClose
            /\ close_calls' = close_calls + 1
            /\ obs' = obs
            /\ IF closed
               THEN UNCHANGED <<closed, kill_session_calls, pane, sh>>
               ELSE \E k \in kill_all_processes(pane, sh) :
                    /\ sh' = session_kill_session(k.sh)
                    /\ pane' = <<>>
                    /\ kill_session_calls' = kill_session_calls + 1
                    /\ closed' = TRUE
    /\ UNCHANGED <<initialized, NO_CHANGE_TIMEOUT_SECONDS, prev_status,
                   prev_output, cwd, pc, action, command, elapsed,
                   since_change, last_pane_output, due, reported, should_continue>>

Call == \E a \in Actions : Execute(a)

Next ==
    \/ Initialize
    \/ InitializeFails
    \/ Call
    \/ Poll
    \/ Sleep
    \/ ShellOutput
    \/ ShellReadInput
    \/ ShellFinish
    \/ Shutdown
    \/ Close

Spec == Init /\ [][Next]_vars

\* ------------------------------------------- a session and its process tree
\* A session seen with the processes of its pane.  username None runs
\* /bin/bash in the pane; root (or openhands) runs "su root -", and su
\* forks the shell and waits for it.
Usernames == {NoUser, "root"}
PaneProcess(user) == IF user = NoUser THEN "bash" ELSE "su"
PaneIdle == PS1Prompt(0, WorkDir)
PaneRunning == PS1Prompt(0, WorkDir) \o CmdSleep \o <<NL>>
ShellAtPrompt ==
    /\ ~tree.session_closed
    /\ "bash" \in tree.procs.alive
    /\ EndsWithPS1End(RStrip(get_pane_content(tree.proc_pane)))

\* the session after __init__(work_dir, username) and initialize()
TreeInit ==
    /\ EngineInit
    /\ \E user \in Usernames :
          tree = [username |-> user,
                  procs |-> [pane_pid |-> PaneProcess(user),
                             alive |-> {PaneProcess(user), "bash"},
                             denied |-> {}],
                  proc_pane |-> PaneIdle, session_closed |-> FALSE,
                  stop_obs |-> NoObservation, last_kill |-> NoKill]
    /\ TextIdle
    /\ HandlerIdle
    /\ PairIdle
    /\ RestIdle

\* the shell starts a foreground command: one process, a process with a
\* child, or a builtin (as wait) that has no process.  A command of a user
\* that is not root may run as another user (through sudo): the session
\* may not signal it.
TreeRun ==
    /\ ShellAtPrompt
    /\ \E started \in {{}, {"cmd"}, {"cmd", "sub"}} :
       \E other_user \in IF tree.username = NoUser THEN BOOLEAN ELSE {FALSE} :
          tree' = [tree EXCEPT
                     !.procs.alive = @ \cup started,
                     !.procs.denied = IF other_user THEN started ELSE {},
                     !.proc_pane = PaneRunning]
    /\ UNCHANGED <<session, texts, handler, pair, rest>>

\* the shell starts a background job and prints its prompt again
TreeBackground ==
    /\ ShellAtPrompt
    /\ "job" \notin tree.procs.alive
    /\ tree' = [tree EXCEPT !.procs.alive = @ \cup {"job"}]
    /\ UNCHANGED <<session, texts, handler, pair, rest>>

\* what is left of the tree when the processes in dead have gone: the
\* child of a dead command is reparented and leaves the tree, and when the
\* shell under su dies su exits and the pane with it
TreeAfter(alive, dead) ==
    IF "bash" \in dead THEN {}
    ELSE alive \ (dead \cup (IF "cmd" \in dead THEN {"sub"} ELSE {}))

\* a command, its child or the background job exits by itself
TreeExit ==
    /\ ~tree.session_closed
    /\ \E n \in tree.procs.alive \cap {"cmd", "sub", "job"} :
          tree' = [tree EXCEPT !.procs.alive = TreeAfter(@, {n})]
    /\ UNCHANGED <<session, texts, handler, pair, rest>>

\* the foreground command is gone, or the builtin is done: the shell
\* prints its prompt
TreePrompt ==
    /\ ~tree.session_closed
    /\ "bash" \in tree.procs.alive
    /\ "cmd" \notin tree.procs.alive
    /\ tree.proc_pane = PaneRunning
    /\ tree' = [tree EXCEPT !.proc_pane = PaneIdle]
    /\ UNCHANGED <<session, texts, handler, pair, rest>>

\* the record of a run of kill_all_processes
KillRecord(op, k, left) ==
    [op |-> op, exited |-> k.exited, signalled |-> k.signalled,
     killed |-> k.killed, success |-> k.success, left |-> left]

\* BashSession.execute(StopProcessesAction) on the initialized session
TreeStop ==
    /\ ~tree.session_closed
    /\ \E k \in kill_all_processes_in(get_pane_content(tree.proc_pane),
                                       tree.procs) :
          tree' = [tree EXCEPT
                     !.procs.alive = TreeAfter(@, k.killed \cup k.exited),
                     !.stop_obs = StopObservation(k.success),
                     !.last_kill = KillRecord("stop", k, {})]
    /\ UNCHANGED <<session, texts, handler, pair, rest>>

\* BashSession.close: kill_all_processes, then session.kill_session().
\* left records the processes below the shell that are alive when the tmux
\* session is killed.
TreeClose ==
    /\ IF tree.session_closed
       THEN UNCHANGED tree
       ELSE \E k \in kill_all_processes_in(get_pane_content(tree.proc_pane),
                                           tree.procs) :
            tree' = [tree EXCEPT
                       !.last_kill =
                          KillRecord("close", k,
                                     {n \in TreeAfter(tree.procs.alive,
                                                      k.killed \cup k.exited) :
                                         IsBelow(n, "bash")}),
                       !.procs.alive = {},
                       !.proc_pane = <<>>,
                       !.session_closed = TRUE]
    /\ UNCHANGED <<session, texts, handler, pair, rest>>

TreeNext ==
    \/ TreeRun
    \/ TreeBackground
    \/ TreeExit
    \/ TreePrompt
    \/ TreeStop
    \/ TreeClose

TreeSpec == TreeInit /\ [][TreeNext]_vars

\* ------------------------------------------------ the splitter and escaper
\* The command texts the pure functions are applied to: every string of at
\* most MaxText characters over a word character, a blank, the backslash, a
\* metacharacter, the single quote and the unsupported construct.
TextAlphabet == {Ch("a"), Ch("sp"), Ch("\\"), Ch(";"), Ch("'"), Ch(Unsupported)}
Texts == UNION {[1..n -> TextAlphabet] : n \in 0..MaxText}

TextInit ==
    /\ EngineInit
    /\ TreeIdle
    /\ \E t \in Texts : texts = TextOf(t)
    /\ HandlerIdle
    /\ PairIdle
    /\ RestIdle

\* split_bash_commands(input_text)
SplitText ==
    /\ ~texts.split_result.done
    /\ texts' = [texts EXCEPT
                  !.split_result = Result(split_bash_commands(texts.input_text))]
    /\ UNCHANGED <<session, tree, handler, pair, rest>>

\* escape_bash_special_chars(input_text)
EscapeCommand ==
    /\ ~texts.escape_result.done
    /\ texts' = [texts EXCEPT
                  !.escape_result =
                     Result(escape_bash_special_chars(texts.input_text))]
    /\ UNCHANGED <<session, tree, handler, pair, rest>>

\* _handle_normal_command for an action whose command is input_text, on a
\* session with no command running: the stripped command is refused when
\* the splitter finds several commands, else the escaper's result is typed
Refused == <<Ch("ERROR: Cannot execute multiple commands at once.")>>
SendText ==
    /\ ~texts.sent_keys.done
    /\ LET cmd == Strip(texts.input_text)
       IN texts' = [texts EXCEPT
                      !.sent_keys =
                         Result(IF too_many_commands(split_bash_commands(cmd))
                                THEN Refused
                                ELSE escape_bash_special_chars(cmd))]
    /\ UNCHANGED <<session, tree, handler, pair, rest>>

TextNext ==
    \/ SplitText
    \/ EscapeCommand
    \/ SendText

TextSpec == TextInit /\ [][TextNext]_vars

\* ------------------------------------------------- Runtime._handle_action
\* config.sandbox.timeout, the default hard timeout
SandboxTimeout == MaxTimeout

\* The actions that arrive: a command action (that may mention
\* $GITHUB_TOKEN) or another action, with or without a timeout.  An action
\* has an id; it is runnable or not (think: it is an AgentThinkAction); its
\* confirmation_state is absent ("none") or set; its type is known
\* (in ACTION_TYPE_TO_CLASS) or not, and supported (the runtime has a method
\* of that name) or not.  A command action is runnable, known and
\* supported.
EventIds == {1, 2}
ConfirmationStates == {"none", "awaiting_confirmation", "rejected"}
Events ==
    {e \in [type : {"CmdRunAction", "OtherAction"}, mentions_token : BOOLEAN,
            timeout : {TimeoutNone} \cup 0..MaxTimeout, blocking : BOOLEAN,
            id : EventIds, runnable : BOOLEAN, think : BOOLEAN,
            confirmation_state : ConfirmationStates, known : BOOLEAN,
            supported : BOOLEAN] :
       /\ e.think => ~e.runnable
       /\ e.type = "CmdRunAction" => e.runnable /\ e.known /\ e.supported}

\* CmdRunAction(command): an action made without a timeout
NewCmdRunAction(what) ==
    [what |-> what, type |-> "CmdRunAction", timeout |-> TimeoutNone,
     blocking |-> FALSE]

\* Action.set_hard_timeout(value, blocking)
set_hard_timeout(e, value, blocking) ==
    [e EXCEPT !.timeout = value, !.blocking = blocking]

HandlerInit ==
    /\ EngineInit
    /\ TreeIdle
    /\ TextIdle
    /\ handler \in [event : Events, github_user_id : BOOLEAN,
                     latest_token : {"token", "none", "raises"},
                     method_raises : BOOLEAN,
                     handed : {<<>>}, stream : {<<>>}, error_messages : {0}]
    /\ PairIdle
    /\ RestIdle

\* Runtime.run_action(action): the observation it returns, by its class, or
\* "raised" when the method of the runtime raises
run_action(e, method_raises) ==
    IF ~e.runnable
    THEN IF e.think THEN "AgentThinkObservation" ELSE "NullObservation"
    ELSE IF e.confirmation_state = "awaiting_confirmation"
    THEN "NullObservation"
    ELSE IF ~e.known \/ ~e.supported THEN "ErrorObservation"
    ELSE IF e.confirmation_state = "rejected" THEN "UserRejectObservation"
    ELSE IF method_raises THEN "raised"
    ELSE "Observation"

\* the test _handle_action makes before event_stream.add_event, and a
\* variant that adds every observation
added_to_stream_always(observation) == TRUE
added_to_stream(observation) == observation # "NullObservation"

\* Runtime._handle_action(event): the default timeout is set, a command
\* that mentions $GITHUB_TOKEN is preceded by an export of the token, and
\* the action is run.  An exception (of get_latest_token or of the run)
\* ends the handler with an error message; else the observation gets the
\* id of the event as its cause and is added to the event stream, unless it
\* is a NullObservation.
HandleAction ==
    /\ handler.handed = <<>>
    /\ LET e == IF handler.event.timeout = TimeoutNone
                THEN set_hard_timeout(handler.event, SandboxTimeout, FALSE)
                ELSE handler.event
           wants_token == /\ e.type = "CmdRunAction"
                          /\ handler.github_user_id
                          /\ e.mentions_token
           export_cmd == NewCmdRunAction("export_cmd")
           run_event == [what |-> "event", type |-> e.type,
                         timeout |-> e.timeout, blocking |-> e.blocking]
           token_raises == wants_token /\ handler.latest_token = "raises"
           observation == IF token_raises THEN "raised"
                          ELSE run_action(e, handler.method_raises)
       IN handler' = [handler EXCEPT
                        !.event = e,
                        !.handed =
                           IF token_raises
                           THEN <<[what |-> "error", type |-> "none",
                                   timeout |-> e.timeout,
                                   blocking |-> e.blocking]>>
                           ELSE IF wants_token /\ handler.latest_token = "token"
                           THEN <<export_cmd, run_event>>
                           ELSE <<run_event>>,
                        !.error_messages =
                           IF observation = "raised" THEN @ + 1 ELSE @,
                        !.stream =
                           IF observation # "raised"
                              /\ added_to_stream(observation)
                           THEN Append(@, [observation |-> observation,
                                           cause |-> e.id])
                           ELSE @]
    /\ UNCHANGED <<session, tree, texts, pair, rest>>

HandlerNext ==
    \/ HandleAction

HandlerSpec == HandlerInit /\ [][HandlerNext]_vars

\* ------------------------------------------------- two sessions on one host
\* Two BashSession objects on one host, each with the user of its shell:
\* "su root -" and "su openhands -" run the shell as that user.
ShellUsers == {"root", "openhands"}
Dirs == {WorkDir, OtherDir}

PairInit ==
    /\ EngineInit
    /\ TreeIdle
    /\ TextIdle
    /\ HandlerIdle
    /\ \E users \in [Sessions -> ShellUsers] : pair = PairOf(users)
    /\ RestIdle

\* `whoami > /tmp/user.txt` in the shell of user u: the redirection creates
\* the file, or truncates it when u may write it (its owner and root may)
write_user_txt(u, file) ==
    IF file = NoFile \/ file.owner = u THEN [content |-> u, owner |-> u]
    ELSE IF u = "root" THEN [content |-> u, owner |-> file.owner]
    ELSE file

\* BashSession.initialize of session i: the shell starts in work_dir,
\* writes /tmp/user.txt and installs the prompt function
PairInitialize(i) ==
    /\ i \notin pair.initialized_sessions
    /\ pair' = [pair EXCEPT
                 !.initialized_sessions = @ \cup {i},
                 !.user_txt = write_user_txt(pair.session_users[i], @)]
    /\ UNCHANGED <<session, tree, texts, handler, rest>>

\* _openhands_ps1 in the shell of session i: username is what
\* /tmp/user.txt holds when the prompt is printed, working_dir is $(pwd)
openhands_ps1(file, dir) ==
    [done |-> TRUE, username |-> file.content, working_dir |-> dir]

\* a command of session i completes in directory d: the shell prints its
\* prompt and execute() parses the metadata from it
PairRun(i, d) ==
    /\ i \in pair.initialized_sessions
    /\ pair' = [pair EXCEPT
                 !.session_dirs[i] = d,
                 !.parsed[i] = openhands_ps1(pair.user_txt, d)]
    /\ UNCHANGED <<session, tree, texts, handler, rest>>

PairNext ==
    \/ \E i \in Sessions : PairInitialize(i)
    \/ \E i \in Sessions : \E d \in Dirs : PairRun(i, d)

PairSpec == PairInit /\ [][PairNext]_vars

\* ------------------------------------ _combine_outputs_between_matches
\* The captures the framing routine is applied to: every text of at most
\* MaxCapture characters over an output character, the newline and a PS1
\* block.  What follows a block in a capture is the end of the capture, a
\* newline (the block was printed by a prompt that was redrawn or by an
\* empty line) or the command typed at the prompt.
CaptureAlphabet == {Ch("a"), NL, Fence(0, WorkDir)}
Captures == UNION {[1..n -> CaptureAlphabet] : n \in 0..MaxCapture}

FrameInit ==
    /\ EngineInit
    /\ TreeIdle
    /\ TextIdle
    /\ HandlerIdle
    /\ PairIdle
    /\ \E t \in Captures : frame = FrameOf(t)
    /\ FinishIdle
    /\ StartupIdle

\* _combine_outputs_between_matches(pane_content, ps1_matches), as the
\* timeout handlers and _handle_interrupted_command call it
FrameRunning ==
    /\ ~frame.running.done
    /\ frame' = [frame EXCEPT
                  !.running =
                     Result(combine_outputs_between_matches(
                              frame.pane_content,
                              matches_ps1_metadata(frame.pane_content),
                              FALSE))]
    /\ UNCHANGED <<session, tree, texts, handler, pair, finish, startup>>

\* _combine_outputs_between_matches(pane_content, ps1_matches,
\* get_content_before_last_match=True), as _handle_completed_command calls it
FrameCompleted ==
    /\ ~frame.completed.done
    /\ frame' = [frame EXCEPT
                  !.completed =
                     Result(combine_outputs_between_matches(
                              frame.pane_content,
                              matches_ps1_metadata(frame.pane_content),
                              TRUE))]
    /\ UNCHANGED <<session, tree, texts, handler, pair, finish, startup>>

FrameNext ==
    \/ FrameRunning
    \/ FrameCompleted

FrameSpec == FrameInit /\ [][FrameNext]_vars

\* ------------------------------ the two tests of a finished command
\* What _get_pane_content returns when a normal command arrives or the loop
\* polls: the lines of the pane, each right-stripped, joined by newlines.
\* No line of it ends with a blank; it ends with a newline when the last
\* line of the pane that is not empty holds blanks only.
FinishStatuses == {NoStatus, COMPLETED, NO_CHANGE_TIMEOUT, HARD_TIMEOUT}

FinishInit ==
    /\ EngineInit
    /\ TreeIdle
    /\ TextIdle
    /\ HandlerIdle
    /\ PairIdle
    /\ FrameIdle
    /\ \E status \in FinishStatuses : \E t \in Captures :
          finish = FinishOf(status, t)
    /\ StartupIdle

\* _handle_normal_command on the capture: the command is answered with the
\* observation of _handle_interrupted_command, or it goes on to be typed
FinishNormal ==
    /\ finish.normal = NotTested
    /\ finish' = [finish EXCEPT
                   !.normal =
                      IF previous_command_running(finish.prev_status,
                                                  finish.pane_content)
                      THEN "interrupted" ELSE "typed"]
    /\ UNCHANGED <<session, tree, texts, handler, pair, frame, startup>>

\* one iteration of the loop of _poll_for_command_completion on the
\* capture, for a blocking action without a timeout: the loop leaves through
\* _handle_completed_command or sleeps
FinishPoll ==
    /\ finish.polled = NotTested
    /\ finish' = [finish EXCEPT
                   !.polled = poll_exit(finish.pane_content, TRUE, TimeoutNone,
                                        0, 0, 0)]
    /\ UNCHANGED <<session, tree, texts, handler, pair, frame, startup>>

FinishNext ==
    \/ FinishNormal
    \/ FinishPoll

FinishSpec == FinishInit /\ [][FinishNext]_vars

\* ----------------------- get_action_execution_server_startup_command
\* str(user_id) for the user ids of the model
UserIds == {0, 1, 1000}
Str(n) == CASE n = 0 -> "0" [] n = 1 -> "1" [] n = 1000 -> "1000"

\* Python's `a or b`, for an optional integer and for an optional string
\* a: a is false when it is None, 0 or ''
or_int(a, b) == IF a.some /\ a.value # 0 THEN a.value ELSE b
or_str(a, b) == IF a.some /\ a.value # "" THEN a.value ELSE b

PythonPrefix == <<"micromamba", "run", "-n", "openhands", "poetry", "run">>

\* get_action_execution_server_startup_command.  The command is given as
\* the words before the server's command line (wrapper: nice -n -20 sh -c,
\* whose last argument execs the command line joined by blanks, or nothing)
\* and the command line itself (argv).
get_action_execution_server_startup_command(a) ==
    LET plugin_args == IF Len(a.plugins) > 0
                       THEN <<"--plugins">> \o a.plugins ELSE <<>>
        browsergym_args == IF a.browsergym_eval_env.some
                           THEN <<"--browsergym-eval-env",
                                  a.browsergym_eval_env.value>>
                           ELSE <<>>
        username == or_str(a.override_username,
                           IF a.run_as_openhands THEN "openhands" ELSE "root")
        user_id == or_int(a.override_user_id,
                          IF a.run_as_openhands THEN a.sandbox_user_id ELSE 0)
        is_root == (username = "root")
        base_cmd == PythonPrefix
                    \o <<"python", "-u", "-m",
                         "openhands.runtime.action_execution_server",
                         "server_port", "--working-dir", "/workspace">>
                    \o plugin_args
                    \o <<"--username", username, "--user-id", Str(user_id)>>
                    \o browsergym_args
    IN [done |-> TRUE,
        wrapper |-> IF is_root /\ a.use_nice_for_root
                    THEN <<"nice", "-n", "-20", "sh", "-c">> ELSE <<>>,
        argv |-> base_cmd]

\* the calls: with or without plugins and a browsergym environment, as
\* openhands (with the user id of the sandbox) or as root, with or without
\* overrides
StartupInit ==
    /\ EngineInit
    /\ TreeIdle
    /\ TextIdle
    /\ HandlerIdle
    /\ PairIdle
    /\ FrameIdle
    /\ FinishIdle
    /\ startup \in [plugins : {<<>>, <<"jupyter">>},
                     browsergym_eval_env : {None(""), Some("env")},
                     run_as_openhands : BOOLEAN,
                     sandbox_user_id : UserIds,
                     use_nice_for_root : BOOLEAN,
                     override_user_id : {None(0)} \cup {Some(n) : n \in UserIds},
                     override_username :
                        {None("")} \cup {Some(u) : u \in {"root", "alice"}},
                     cmd : {NoCommand}]

StartupCommand ==
    /\ ~startup.cmd.done
    /\ startup' = [startup EXCEPT
                    !.cmd = get_action_execution_server_startup_command(startup)]
    /\ UNCHANGED <<session, tree, texts, handler, pair, frame, finish>>

StartupNext ==
    \/ StartupCommand

StartupSpec == StartupInit /\ [][StartupNext]_vars

\* The thread that runs execute() keeps running: a poll that can be taken is
\* taken, and a sleep ends.  Nothing obliges the job in the shell to end, a
\* caller to call again, or the process to be shut down.
\* Poll is enabled exactly in the states with pc = "poll" and every step
\* that leaves pc = "poll" is a Poll step, so weak fairness of Poll is
\* []<>(pc # "poll").
PollFair == []<>(pc # "poll")
LiveSpec == Spec /\ PollFair /\ WF_vars(Sleep)

\* --------------------------------------------------------------- properties
\* What the poll of the current state sees, for a state with pc = "poll".
CurPane == get_pane_content(pane)
Complete == EndsWithPS1End(RStrip(CurPane))
SinceChangeNow == IF CurPane # last_pane_output THEN 0 ELSE since_change
NoChangeDue ==
    ~action.blocking /\ SinceChangeNow >= NO_CHANGE_TIMEOUT_SECONDS
HardDue == TimeoutIsSet(action.timeout) /\ elapsed >= action.timeout
\* a step of the polling loop: one iteration, which sleeps or leaves
PollStep == pc = "poll" /\ pc' # "poll"
\* execute() is called with a normal command
NormalCall(a) == /\ pc = "ready" /\ initialized
                 /\ ~a.is_input /\ Strip(a.command) # CmdEmpty
                 /\ Execute(a)
\* execute() is called with an empty command
EmptyCall(a) == /\ pc = "ready" /\ initialized
                /\ Strip(a.command) = CmdEmpty
                /\ Execute(a)
\* execute() is called with a non-empty command that has is_input set
InputCall(a) == /\ pc = "ready" /\ initialized
                /\ a.is_input /\ Strip(a.command) # CmdEmpty
                /\ Execute(a)

\* C1: a new normal command is injected into the pane only when the shell
\* is idle at its prompt, never while an earlier command is still running.
C1_InjectsOnlyWhenIdle ==
    [][\A a \in CmdRunActions :
          (NormalCall(a) /\ pane' # pane) => sh.state = "idle"]_vars

C3_ExitOrder ==
    [][PollStep =>
         /\ Complete =>
              /\ pc' = "ready"
              /\ prev_status' = COMPLETED
              /\ obs'.metadata.suffix \in {"completed", "completed_ctrl"}
         /\ (~Complete /\ NoChangeDue) =>
              /\ pc' = "ready"
              /\ prev_status' = NO_CHANGE_TIMEOUT
              /\ obs'.metadata.suffix = "nochange"
         /\ (~Complete /\ ~NoChangeDue /\ HardDue) =>
              /\ pc' = "ready"
              /\ prev_status' = HARD_TIMEOUT
              /\ obs'.metadata.suffix = "hard"]_vars

\* the loop was left through the no-change handler at a poll where the hard
\* deadline had expired as well
C3_Witness ==
    /\ pc = "ready"
    /\ obs.metadata.suffix = "nochange"
    /\ prev_status = NO_CHANGE_TIMEOUT
    /\ due.no_change
    /\ due.hard

\* C4: a poll of a blocking action never leaves through the no-change
\* handler and never sets prev_status to NO_CHANGE_TIMEOUT; a poll of a
\* non-blocking action leaves through it as soon as the capture is not
\* complete and has not changed for no_change_timeout_seconds.
C4_BlockingSuppressesNoChange ==
    [][PollStep =>
         /\ action.blocking =>
              /\ obs'.metadata.suffix # "nochange"
              /\ prev_status' = NO_CHANGE_TIMEOUT
                   => prev_status = NO_CHANGE_TIMEOUT /\ pc' = "sleep"
         /\ (~action.blocking /\ ~Complete
             /\ SinceChangeNow >= NO_CHANGE_TIMEOUT_SECONDS) =>
              /\ pc' = "ready"
              /\ prev_status' = NO_CHANGE_TIMEOUT
              /\ obs'.metadata.suffix = "nochange"]_vars

\* a poll of a blocking action has seen the pane unchanged for the no-change
\* timeout and went on to sleep
C4_Witness ==
    /\ pc = "sleep"
    /\ action.blocking
    /\ NO_CHANGE_TIMEOUT_SECONDS > 0
    /\ since_change >= NO_CHANGE_TIMEOUT_SECONDS
    /\ prev_status # NO_CHANGE_TIMEOUT

\* C5: for every timeout that is set (every value but None), a poll that
\* finds the elapsed time at least the timeout, the command not complete
\* and the no-change timeout not firing leaves with HARD_TIMEOUT.
C5_HardTimeoutFires ==
    [][(PollStep /\ action.timeout # TimeoutNone
        /\ elapsed >= action.timeout /\ ~Complete /\ ~NoChangeDue) =>
         /\ pc' = "ready"
         /\ prev_status' = HARD_TIMEOUT
         /\ obs'.metadata.suffix = "hard"]_vars

\* C6: the no-change and hard timeout handlers leave the pane and the shell
\* as they are (no keys, no signal, no clear); of the session they change
\* prev_status and prev_output only, and prev_output becomes the output
\* read from the capture: it is not reset.
C6_TimeoutLeavesCommand ==
    [][(PollStep /\ pc' = "ready"
        /\ obs'.metadata.suffix \in {"nochange", "hard"}) =>
         /\ pane' = pane
         /\ sh' = sh
         /\ cwd' = cwd
         /\ initialized' = initialized
         /\ NO_CHANGE_TIMEOUT_SECONDS' = NO_CHANGE_TIMEOUT_SECONDS
         /\ prev_status' \in {NO_CHANGE_TIMEOUT, HARD_TIMEOUT}
         /\ prev_output' = combine_outputs_between_matches(
                              CurPane, matches_ps1_metadata(CurPane), FALSE)
         /\ obs'.metadata.exit_code = UnknownExitCode]_vars

\* a call has returned a no-change timeout: the command still runs and
\* prev_output holds its output so far
C6_Witness ==
    /\ pc = "ready"
    /\ obs.metadata.suffix = "nochange"
    /\ prev_status = NO_CHANGE_TIMEOUT
    /\ sh.state = "running"
    /\ sh.outs > 0
    /\ prev_output # <<>>

\* C7: the COMPLETED observation an empty command returns after a timeout
\* carries the exit status the command ended with.
C7_RetrievedExitCode ==
    (/\ pc = "ready"
     /\ obs.type = "CmdOutputObservation"
     /\ obs.command = CmdEmpty
     /\ obs.metadata.suffix = "completed"
     /\ sh.state = "idle")
    => obs.metadata.exit_code = sh.status

\* C8: the COMPLETED observation of a C-c typed to a running command names
\* the key and carries the exit status 130 the shell has at its prompt.
C8_CtrlCExitCode ==
    (/\ pc = "ready"
     /\ obs.type = "CmdOutputObservation"
     /\ obs.command = CmdCtrlC
     /\ obs.metadata.suffix = "completed_ctrl"
     /\ sh.state = "idle"
     /\ sh.status = 130)
    => obs.metadata.exit_code = 130

\* C9: a normal command that arrives while prev_status is a timeout and the
\* capture does not end with a PS1 block is not injected: the pane and the
\* shell stay as they are, the loop is not entered, the observation has
\* exit code -1 and prev_status keeps its value.
C9_InterruptedNotInjected ==
    [][\A a \in CmdRunActions :
          (/\ prev_status \in {HARD_TIMEOUT, NO_CHANGE_TIMEOUT}
           /\ ~EndsWithPS1End(CurPane)
           /\ NormalCall(a)) =>
            /\ pane' = pane
            /\ sh' = sh
            /\ pc' = "ready"
            /\ obs'.type = "CmdOutputObservation"
            /\ obs'.metadata.exit_code = -1
            /\ obs'.metadata.suffix = "not_executed"
            /\ prev_status' = prev_status
            /\ cwd' = cwd]_vars

\* a normal command was answered with the not-executed observation while
\* the earlier command runs and prev_status is the no-change timeout
C9_Witness ==
    /\ pc = "ready"
    /\ obs.metadata.suffix = "not_executed"
    /\ obs.metadata.exit_code = -1
    /\ prev_status = NO_CHANGE_TIMEOUT
    /\ sh.state = "running"

\* C10: an empty command is accepted exactly when prev_status is CONTINUE,
\* NO_CHANGE_TIMEOUT or HARD_TIMEOUT.  Accepted, it sends no keys and goes
\* to the polling loop; otherwise it returns the error observation and
\* changes nothing of the session, the pane and the shell.
C10_EmptyCommand ==
    [][\A a \in CmdRunActions :
          EmptyCall(a) =>
            /\ pane' = pane
            /\ sh' = sh
            /\ prev_status' = prev_status
            /\ prev_output' = prev_output
            /\ cwd' = cwd
            /\ IF prev_status \in {CONTINUE, NO_CHANGE_TIMEOUT, HARD_TIMEOUT}
               THEN \/ pc' = "poll" /\ command' = CmdEmpty
                    \/ ~should_continue /\ obs' = FatalError
               ELSE /\ pc' = "ready"
                    /\ obs' = CmdOutputObservation(
                         Text("ERROR: No previous running command to retrieve logs from."),
                         CmdEmpty, NoMetadata)]_vars

\* an empty command was refused after a command had completed
C10_Witness ==
    /\ pc = "ready"
    /\ prev_status = COMPLETED
    /\ obs.type = "CmdOutputObservation"
    /\ obs.content =
         Text("ERROR: No previous running command to retrieve logs from.")

\* C11: an is_input command is typed into the pane exactly when prev_status
\* is CONTINUE, NO_CHANGE_TIMEOUT or HARD_TIMEOUT, and then the polling loop
\* is entered with it.  In every other state the call returns the
\* observation 'ERROR: No previous running command to interact with.', the
\* pane and the shell get no key, and prev_status, prev_output and cwd keep
\* their values.
C11_InputOnlyWhenContinuing ==
    [][\A a \in CmdRunActions :
          InputCall(a) =>
            /\ prev_status' = prev_status
            /\ prev_output' = prev_output
            /\ cwd' = cwd
            /\ IF prev_status \in {CONTINUE, NO_CHANGE_TIMEOUT, HARD_TIMEOUT}
               THEN /\ pane' # pane
                    /\ sh'.typed = sh.typed + 1
                    /\ \/ pc' = "poll" /\ command' = Strip(a.command)
                       \/ ~should_continue /\ obs' = FatalError
               ELSE /\ pane' = pane
                    /\ sh' = sh
                    /\ pc' = "ready"
                    /\ obs' = CmdOutputObservation(
                         Text("ERROR: No previous running command to interact with."),
                         CmdEmpty, NoMetadata)]_vars

\* an is_input command was refused after a command had completed
C11_Witness ==
    /\ pc = "ready"
    /\ prev_status = COMPLETED
    /\ obs.type = "CmdOutputObservation"
    /\ obs.content =
         Text("ERROR: No previous running command to interact with.")

\* C12: when the splitter, called for a normal command, returns more than
\* one command, execute() returns the error observation that lists the
\* commands numbered from 1; the pane and the shell get no key, the polling
\* loop is not entered, and prev_status, prev_output and cwd keep their
\* values.  The splitter is called unless the command is refused because the
\* earlier one still runs.
C12_MultipleCommandsRefused ==
    [][\A a \in CmdRunActions :
          (/\ pc = "ready"
           /\ ~a.is_input
           /\ Len(split_bash_commands(Strip(a.command))) > 1
           /\ ~previous_command_running(prev_status, CurPane)
           /\ NormalCall(a)) =>
            /\ obs'.type = "ErrorObservation"
            /\ obs'.content =
                 Text("ERROR: Cannot execute multiple commands at once.")
                 \o <<NL, [c |-> "(i)", ec |-> 1, wd |-> ""], Ch("a"), NL,
                      [c |-> "(i)", ec |-> 2, wd |-> ""], Ch("b")>>
            /\ pane' = pane
            /\ sh' = sh
            /\ pc' = "ready"
            /\ prev_status' = prev_status
            /\ prev_output' = prev_output
            /\ cwd' = cwd]_vars

\* two commands in one action were refused after a timeout whose command
\* has ended since
C12_Witness ==
    /\ pc = "ready"
    /\ obs.type = "ErrorObservation"
    /\ obs = MultipleCommandsError(<<<<Ch("a")>>, <<Ch("b")>>>>)
    /\ prev_status \in {NO_CHANGE_TIMEOUT, HARD_TIMEOUT}
    /\ sh.state = "idle"

\* C13: execute() handles a StopProcessesAction first and answers an action
\* that is not a CmdRunAction with the 'Unsupported action type' error.  A
\* CmdRunAction is dispatched on its stripped command and is_input alone,
\* the empty test first: empty after stripping, it takes the empty-retrieve
\* path even with is_input set; not empty and is_input set, the input path;
\* otherwise the normal path.
C13_Dispatch ==
    [][\A a \in Actions :
          (pc = "ready" /\ initialized /\ Execute(a)) =>
            IF a.type = "StopProcessesAction"
            THEN /\ pc' = "ready"
                 /\ pane' = pane
                 /\ obs'.content \in
                      {Text("All running processes have been terminated"),
                       Text("No processes were terminated")}
            ELSE IF a.type # "CmdRunAction"
            THEN /\ pc' = "ready"
                 /\ pane' = pane
                 /\ sh' = sh
                 /\ obs' = ErrorObservation(Text("Unsupported action type"))
            ELSE IF Strip(a.command) = CmdEmpty
            THEN /\ pane' = pane
                 /\ sh' = sh
                 /\ IF in_continuing_state(prev_status)
                    THEN \/ pc' = "poll" /\ command' = CmdEmpty
                         \/ ~should_continue /\ obs' = FatalError
                    ELSE obs'.content =
                           Text("ERROR: No previous running command to retrieve logs from.")
            ELSE IF a.is_input
            THEN IF in_continuing_state(prev_status)
                 THEN /\ pane' # pane
                      /\ \/ pc' = "poll" /\ command' = Strip(a.command)
                         \/ ~should_continue /\ obs' = FatalError
                 ELSE /\ pane' = pane
                      /\ obs'.content =
                           Text("ERROR: No previous running command to interact with.")
            ELSE \/ /\ pc' = "ready"
                    /\ pane' = pane
                    /\ \/ obs'.metadata.suffix = "not_executed"
                       \/ obs'.type = "ErrorObservation"
                 \/ /\ pane' # pane
                    /\ \/ pc' = "poll"
                          /\ command' = escape_bash_special_chars(Strip(a.command))
                       \/ ~should_continue /\ obs' = FatalError]_vars

\* an action that is neither a command nor a stop was refused while the
\* command of an earlier call runs
C13_Witness ==
    /\ pc = "ready"
    /\ obs = ErrorObservation(Text("Unsupported action type"))
    /\ prev_status \in {NO_CHANGE_TIMEOUT, HARD_TIMEOUT}
    /\ sh.state = "running"

\* the last call returned a COMPLETED observation
ReturnedCompleted ==
    /\ pc = "ready"
    /\ ~closed
    /\ obs.type = "CmdOutputObservation"
    /\ obs.metadata.suffix \in {"completed", "completed_ctrl"}

\* C14: when a call has returned a COMPLETED observation, by whatever path,
\* prev_status is COMPLETED, prev_output is empty and the pane holds the
\* prompt alone: the capture of the next command has no text of an earlier
\* command.
C14_CompletedClearsPane ==
    ReturnedCompleted =>
      /\ prev_status = COMPLETED
      /\ prev_output = <<>>
      /\ sh.state = "idle"
      /\ pane = PS1Prompt(sh.status, sh.cwd)
      /\ get_pane_content(pane) = <<NL, Fence(obs.metadata.exit_code, cwd)>>

\* a C-c typed to a running command has completed it and the pane was cleared
C14_Witness ==
    /\ ReturnedCompleted
    /\ obs.metadata.suffix = "completed_ctrl"
    /\ obs.command = CmdCtrlC
    /\ prev_output = <<>>
    /\ pane = PS1Prompt(130, WorkDir)

C16_CwdIsShellDirectory ==
    ReturnedCompleted => (sh.state = "idle" /\ cwd = sh.cwd)

\* a cd that timed out was completed by an empty command, and cwd followed
C16_Witness ==
    /\ ReturnedCompleted
    /\ obs.command = CmdEmpty
    /\ sh.cwd = OtherDir
    /\ cwd = OtherDir

\* C17: after initialize() a step changes cwd only when it is the poll that
\* returns COMPLETED and the last PS1 match of its capture carries a
\* working_dir that is not empty and differs from cwd, which becomes the new
\* cwd.  Timeout, not-executed, invalid-state, multiple-command and Stop
\* observations and the fatal error leave cwd as it is.
C17_CwdChangesAtCompleted ==
    [][(initialized /\ cwd' # cwd) =>
         /\ PollStep
         /\ Complete
         /\ prev_status' = COMPLETED
         /\ obs'.metadata.suffix \in {"completed", "completed_ctrl"}
         /\ obs'.metadata.working_dir # ""
         /\ obs'.metadata.working_dir # cwd
         /\ cwd' = obs'.metadata.working_dir
         /\ cwd' = LastFence(CurPane).wd]_vars

\* a call has returned a timeout while the shell is in another directory
\* already: cwd has not followed
C17_Witness ==
    /\ pc = "ready"
    /\ obs.type = "CmdOutputObservation"
    /\ obs.metadata.suffix \in {"nochange", "hard"}
    /\ sh.cwd = OtherDir
    /\ cwd = WorkDir

\* what a text holds: a PS1 block the prompt wrote, or a line of output that
\* quotes the markers
HasFence(s) == \E i \in 1..Len(s) : s[i].c = "P"
HasMarkerText(s) == \E i \in 1..Len(s) : s[i].c \in {"P", "M"}

\* C18 as stated: no observation execute() returns has the PS1 end marker
\* anywhere in its content.
C18_NoEndMarkerInContent ==
    ~HasMarkerText(obs.content)

\* C18: no observation execute() returns has a PS1 block of the prompt in
\* its content: the spans taken from the capture leave every matched block
\* out.  Marker text the command itself printed is part of its output and
\* stays in the content.
C18_NoFenceInContent ==
    ~HasFence(obs.content)

\* a timeout observation after the command of an earlier timeout has ended:
\* the capture it was cut from holds several PS1 blocks
C18_Witness ==
    /\ pc = "ready"
    /\ obs.type = "CmdOutputObservation"
    /\ obs.metadata.suffix \in {"nochange", "hard"}
    /\ obs.content # <<>>
    /\ Len(matches_ps1_metadata(CurPane)) >= 2
    /\ ~HasFence(obs.content)

\* C19 as stated: a COMPLETED observation has the exit code parsed from the
\* PS1 block, and its content neither begins with the left-trimmed command
\* (for a command that is not empty) nor holds the ###PS1JSON### marker
\* anywhere.
C19_NoMarkerInCompleted ==
    ReturnedCompleted =>
      /\ obs.metadata.exit_code \in Int
      /\ obs.metadata.exit_code = LastFence(pane).ec
      /\ obs.command # CmdEmpty =>
           ~StartsWith(obs.content, LStrip(obs.command))
      /\ ~HasMarkerText(obs.content)

\* C19: a COMPLETED observation has the exit code and the working directory
\* parsed from the last PS1 block of its capture, which is the prompt the
\* cleared pane shows; its content does not begin with the left-trimmed
\* command (for a command that is not empty) and holds no PS1 block written
\* by the prompt, also when the completion follows a timeout.  A line of
\* output that quotes the ###PS1JSON### marker stays in the content.
C19_CompletedContent ==
    ReturnedCompleted =>
      /\ obs.metadata.exit_code \in Int
      /\ obs.metadata.exit_code = LastFence(pane).ec
      /\ obs.metadata.working_dir = LastFence(pane).wd
      /\ obs.command # CmdEmpty =>
           ~StartsWith(obs.content, LStrip(obs.command))
      /\ ~HasFence(obs.content)

\* a line typed to a command that had timed out has completed it: the
\* capture held several PS1 blocks and prev_output was not empty
C19_Witness ==
    /\ ReturnedCompleted
    /\ obs.command = CmdText
    /\ obs.content # <<>>
    /\ obs.metadata.exit_code = 0
    /\ ~HasFence(obs.content)

\* C20: close() is idempotent.  The first close() kills the tmux session and
\* sets _closed; a close() on a closed session kills no process and does
\* not call kill_session, so the session is killed at most once.
C20_CloseIdempotent ==
    /\ [](/\ kill_session_calls <= 1
          /\ closed <=> kill_session_calls = 1
          /\ close_calls >= 1 => closed)
    /\ [][(closed /\ close_calls' # close_calls) =>
            /\ closed'
            /\ kill_session_calls' = kill_session_calls
            /\ sh' = sh
            /\ pane' = pane]_vars

\* close() was called on a session it had closed before
C20_Witness ==
    /\ closed
    /\ close_calls = 2
    /\ kill_session_calls = 1
    /\ sh.state = "absent"

\* C26: execute() on a session whose initialize() has not completed raises
\* the fatal error for every action type, and it does so before anything
\* else: no keystroke or signal reaches a shell, no session state is read
\* or written, no polling starts.
C26_UninitializedRaises ==
    [][\A a \in Actions : (~initialized /\ Execute(a)) =>
            /\ obs' = Raised("RuntimeError: Bash session is not initialized")
            /\ pc' = "ready"
            /\ UNCHANGED <<pane, sh, prev_status, prev_output, cwd, initialized, closed>>]_vars

\* a never-initialized session has answered a call, on a pane in which a
\* failed initialize() had started the shell
C26_Witness ==
    /\ ~initialized
    /\ sh.state = "idle"
    /\ obs = Raised("RuntimeError: Bash session is not initialized")

\* the call execute(a) gets as far as the polling loop: an empty command or
\* an input that is accepted, or a command that is sent to the shell
C25_EntersLoop(a) ==
    /\ initialized
    /\ a.type = "CmdRunAction"
    /\ LET path == dispatch(Strip(a.command), a.is_input)
       IN IF path = "normal"
          THEN /\ ~previous_command_running(prev_status, get_pane_content(pane))
               /\ ~too_many_commands(split_bash_commands(Strip(a.command)))
          ELSE in_continuing_state(prev_status)

\* C25: an external shutdown is fatal.  When should_continue() is false at
\* a test of the polling loop, before the first poll or after a sleep,
\* execute() raises the "session interrupted" error instead of returning an
\* observation, no poll follows, and prev_status, prev_output and cwd keep
\* the values they had.
C25_ShutdownIsFatal ==
    [][~should_continue =>
         /\ (pc # "poll") => (pc' # "poll")
         /\ (pc = "sleep" /\ pc' # "sleep") =>
               /\ pc' = "ready"
               /\ obs' = Raised("RuntimeError: Bash session was likely interrupted")
               /\ UNCHANGED <<prev_status, prev_output, cwd>>
         /\ (pc = "ready") =>
               \A a \in Actions : (C25_EntersLoop(a) /\ Execute(a)) =>
                  /\ pc' = "ready"
                  /\ obs' = Raised("RuntimeError: Bash session was likely interrupted")
                  /\ UNCHANGED <<prev_status, prev_output, cwd>>]_vars

\* the loop was left by the fatal error while the command was running and
\* the session remembered an earlier timeout
C25_Witness ==
    /\ ~should_continue
    /\ pc = "ready"
    /\ obs = Raised("RuntimeError: Bash session was likely interrupted")
    /\ sh.state = "running"
    /\ prev_status = NO_CHANGE_TIMEOUT

\* C21: close() is safe in every lifecycle state of the session
\* (constructed and never initialized, initialize() failed part-way,
\* initialized, already closed): it never raises.
C21_CloseNeverRaises == obs # Raised("AttributeError: _closed")

\* C24: kill-all never sends a signal to the shell's own PID.
C24_ShellNeverSignalled == "bash" \notin tree.last_kill.signalled

\* C22: at the moment close() kills the tmux session, no process below the
\* session's shell is alive, whatever state the shell was in.
C22_NoDescendantAtKillSession ==
    tree.last_kill.op = "close" => tree.last_kill.left = {}

\* C23: a Stop action returns "All running processes have been terminated"
\* if and only if at least one process was killed by the SIGKILL it was
\* sent, and "No processes were terminated" otherwise; the call returns
\* without polling and the metadata of its observation has exit code -1.
C23_StopReportsKills ==
    [][(initialized /\ Execute(StopProcessesAction)) =>
         /\ pc' = "ready"
         /\ obs'.type = "CmdOutputObservation"
         /\ obs'.metadata.exit_code = -1
         /\ obs'.content \in {Text("All running processes have been terminated"),
                              Text("No processes were terminated")}
         /\ \E k \in kill_all_processes_in(get_pane_content(pane),
                                             ProcessTable(sh)) :
               /\ (obs'.content = Text("All running processes have been terminated"))
                     <=> (k.killed # {})
               /\ sh' = IF "cmd" \in k.killed
                        THEN [sh EXCEPT !.intr = "kill"] ELSE sh
         /\ UNCHANGED <<pane, prev_status, prev_output, cwd>>]_vars

\* a Stop action has killed the running command, which has not ended yet
C23_Witness ==
    /\ obs.content = Text("All running processes have been terminated")
    /\ sh.state = "running"
    /\ sh.intr = "kill"

\* C28: parse failure falls open.  When bashlex raises ParsingError or
\* NotImplementedError for a command, the splitter returns the one-element
\* list holding the input, the escaper returns the input unchanged, and the
\* engine does not refuse the command as several commands but types it as
\* it was given.
C28_ParseFailureFallsOpen ==
    /\ bashlex_error(texts.input_text) # NoError =>
         /\ texts.split_result.done => texts.split_result.value = <<texts.input_text>>
         /\ texts.escape_result.done => texts.escape_result.value = texts.input_text
    /\ bashlex_error(Strip(texts.input_text)) # NoError =>
         (texts.sent_keys.done => texts.sent_keys.value = Strip(texts.input_text))

\* the three were applied to a text with a backslash before a
\* metacharacter, a trailing blank and a quote that is not closed
C28_Witness ==
    /\ texts.input_text = <<Ch("'"), Ch("\\"), Ch(";"), Ch("sp")>>
    /\ texts.split_result.done
    /\ texts.escape_result.done
    /\ texts.sent_keys.done

\* the positions of a text that hold a backslash outside quotes, followed
\* by a metacharacter
UnquotedEscapedMeta(s) ==
    LET t == LexTags(s, 1, FALSE, FALSE)
    IN {i \in 1..(Len(s) - 1) :
          /\ s[i].c = "\\"
          /\ t[i] # "q"
          /\ s[i + 1].c \in MetaChars}

\* C29: the escaper is a no-op on any input that has no unquoted
\* metacharacter preceded by a backslash, empty and whitespace-only inputs
\* included: it returns the input character for character.
C29_EscaperNoOp ==
    (texts.escape_result.done /\ UnquotedEscapedMeta(texts.input_text) = {}) =>
        texts.escape_result.value = texts.input_text

\* C30: every command action that _handle_action hands to the runtime, the
\* action itself and the command it issues first to export GITHUB_TOKEN,
\* carries a timeout.
C30_EveryCommandCarriesTimeout ==
    \A i \in 1..Len(handler.handed) :
       handler.handed[i].type = "CmdRunAction" => handler.handed[i].timeout # TimeoutNone

\* C27: sessions are independent.  With two sessions that initialize and
\* run commands in any interleaving, under the same or different users, the
\* metadata a session parses from its own prompt is that of its own shell:
\* its user and its working directory.
C27_OwnMetadata ==
    \A i \in Sessions :
       pair.parsed[i].done =>
          /\ pair.parsed[i].username = pair.session_users[i]
          /\ pair.parsed[i].working_dir = pair.session_dirs[i]
\* a poll leaves the loop through the completion handler
CompletedStep ==
    /\ PollStep
    /\ pc' = "ready"
    /\ obs'.metadata.suffix \in {"completed", "completed_ctrl"}
\* the text of the capture before its first PS1 match
BeforeFirstMatch ==
    SliceTo(CurPane, MatchStart(matches_ps1_metadata(CurPane)[1]))

\* C31: whenever a completion is handled with exactly one PS1 match in the
\* capture, the content of the observation is the text of the pane before
\* that match (without the echo of the command and without the whitespace
\* around it), and metadata.prefix is the truncation banner with the line
\* count of that text, also when prev_output is not empty because the
\* completion follows a timeout.
C31_TruncationBanner ==
    [][(CompletedStep /\ Len(matches_ps1_metadata(CurPane)) = 1) =>
         /\ obs'.metadata.prefix = "truncated"
         /\ obs'.metadata.num_lines = NumLines(BeforeFirstMatch)
         /\ obs'.content =
              RStrip(remove_command_prefix(BeforeFirstMatch, command))]_vars
\* C32: the metadata of a COMPLETED observation is taken from the last PS1
\* match of the capture, whatever the number of matches: the block the
\* capture ends with, which is the prompt the shell printed after the
\* command that just finished, and never an earlier prompt.  (The suffix
\* cites metadata.exit_code itself.)
C32_MetadataFromLastMatch ==
    [][CompletedStep =>
         LET ps1_matches == matches_ps1_metadata(CurPane)
             last == ps1_matches[Len(ps1_matches)]
         IN /\ Len(ps1_matches) >= 1
            /\ last = Len(CurPane)
            /\ \A i \in 1..Len(ps1_matches) : ps1_matches[i] <= last
            /\ obs'.metadata.exit_code = CurPane[last].ec
            /\ obs'.metadata.working_dir = CurPane[last].wd
            /\ sh.state = "idle"
            /\ CurPane[last].wd = sh.cwd]_vars

\* a cd has completed: the capture held the prompt before the command, with
\* the old directory, and the prompt after it, with the new one
C32_Witness ==
    /\ ReturnedCompleted
    /\ obs.command = CmdCd
    /\ obs.metadata.working_dir = OtherDir
    /\ sh.cwd = OtherDir
\* the observation of the last call is one that reports no completion
ReportsNoCompletion ==
    \/ obs.type = "ErrorObservation"
    \/ /\ obs.type = "CmdOutputObservation"
       /\ obs.metadata.suffix \in {"nochange", "hard", "not_executed", ""}

\* C33: every observation of the no-change-timeout, hard-timeout,
\* interrupted-command, invalid-state and Stop paths carries metadata with
\* exit_code -1 and no working directory; after a timeout path prev_status
\* is the matching status; an observation with another exit code comes from
\* the completion handler and prev_status is COMPLETED.
C33_UnknownExitCode ==
    pc = "ready" =>
       /\ ReportsNoCompletion =>
             /\ obs.metadata.exit_code = UnknownExitCode
             /\ obs.metadata.working_dir = ""
       /\ (obs.type = "CmdOutputObservation"
            /\ obs.metadata.suffix = "nochange") =>
               prev_status = NO_CHANGE_TIMEOUT
       /\ (obs.type = "CmdOutputObservation"
            /\ obs.metadata.suffix = "hard") =>
               prev_status = HARD_TIMEOUT
       /\ obs.metadata.exit_code # UnknownExitCode =>
             /\ obs.type = "CmdOutputObservation"
             /\ obs.metadata.suffix \in {"completed", "completed_ctrl"}
             /\ prev_status = COMPLETED
       /\ (obs.type = "CmdOutputObservation"
            /\ obs.metadata.suffix \in {"completed", "completed_ctrl"}) =>
               obs.metadata.exit_code # UnknownExitCode

\* a hard timeout has been reported for a command that had already been
\* reported once
C33_Witness ==
    /\ pc = "ready"
    /\ obs.type = "CmdOutputObservation"
    /\ obs.metadata.suffix = "hard"
    /\ obs.metadata.exit_code = UnknownExitCode
    /\ prev_status = HARD_TIMEOUT
    /\ prev_output # <<>>
\* the framing rule: the text of the capture outside its k matches
RECURSIVE SpansBetween(_, _, _)
SpansBetween(s, m, i) ==
    IF i > Len(m) - 1 THEN <<>>
    ELSE SubSeq(s, m[i] + 1, m[i + 1] - 1) \o <<NL>>
         \o SpansBetween(s, m, i + 1)
FramingRule(s, running) ==
    LET m == matches_ps1_metadata(s)
    IN IF Len(m) = 0 THEN s
       ELSE IF Len(m) = 1
       THEN IF running THEN SubSeq(s, m[1] + 1, Len(s))
            ELSE SubSeq(s, 1, m[1] - 1)
       ELSE SpansBetween(s, m, 1)

\* C34: for every capture and every number k of PS1 matches the framing
\* routine returns what the framing rule says: the whole capture (k = 0),
\* everything after the match (k = 1, running), everything before it
\* (k = 1, completed), the spans between consecutive matches, each followed
\* by a newline (k >= 2); and the result holds no text of a matched block.
C34_FramingRule ==
    /\ frame.running.done =>
          /\ frame.running.value = FramingRule(frame.pane_content, TRUE)
          /\ ~HasFence(frame.running.value)
    /\ frame.completed.done =>
          /\ frame.completed.value = FramingRule(frame.pane_content, FALSE)
          /\ ~HasFence(frame.completed.value)
\* a poll leaves the loop through one of the two timeout handlers
TimeoutStep ==
    /\ PollStep
    /\ pc' = "ready"
    /\ obs'.type = "CmdOutputObservation"
    /\ obs'.metadata.suffix \in {"nochange", "hard"}

\* C35: whenever the no-change or the hard timeout is handled, the capture
\* holds exactly one PS1 match, the prompt the command was typed at, and the
\* output reported is what follows that match in the capture, as the framing
\* routine cuts it: the output of the command that is still running.
C35_OneMatchAtTimeout ==
    [][TimeoutStep =>
         LET ps1_matches == matches_ps1_metadata(CurPane)
         IN /\ Len(ps1_matches) = 1
            /\ prev_output' =
                  SliceFrom(CurPane, MatchEnd(ps1_matches[1]) + 1)]_vars
\* the command processes of a process table: the children of the shell and
\* what is below them
CommandProcesses(t) == {n \in t.alive : IsBelow(n, "bash")}

\* a run of kill_all_processes, by a Stop action or by close()
KillAllStep ==
    \/ TreeStop
    \/ ~tree.session_closed /\ TreeClose

\* C36: the processes kill-all signals are exactly the command processes
\* (the direct children of the shell and their descendants), the shell
\* excluded: none outside that set is signalled and none of the set is
\* skipped (one that has exited since the listing has no signal to get).
C36_KillsCommandProcesses ==
    [][KillAllStep =>
         /\ tree'.last_kill.signalled \subseteq CommandProcesses(tree.procs)
         /\ CommandProcesses(tree.procs) \subseteq
               tree'.last_kill.signalled \cup tree'.last_kill.exited]_vars
\* nothing has left the pane since it was last cleared: the capture still
\* begins with the prompt the clearing drew
AppendOnly(p) == Len(p) >= 2 /\ p[1] = NL /\ p[2].c = "P"

\* C37: output is reported incrementally.  While the pane is append-only,
\* the observations made since it was cleared hold together no more lines
\* of output than the pane (no line is repeated: each content holds only
\* output that came after the previous observation), and when the command
\* is found completed they hold, with the observation of the completion,
\* every line once (none is lost).
C37_IncrementalOutput ==
    [][/\ AppendOnly(pane) => reported <= OutLines(CurPane)
       /\ AppendOnly(pane') => reported' <= OutLines(get_pane_content(pane'))
       /\ (CompletedStep /\ AppendOnly(pane)) =>
             reported + OutLines(obs'.content) = OutLines(CurPane)]_vars

\* a command was reported by a timeout when it had printed a line, and the
\* empty command that followed has found it completed
C37_Witness ==
    /\ pc = "ready"
    /\ obs.type = "CmdOutputObservation"
    /\ obs.metadata.suffix = "nochange"
    /\ obs.metadata.prefix = "continue"
    /\ AppendOnly(pane)
    /\ reported = 1
    /\ OutLines(get_pane_content(pane)) = 1
    /\ OutLines(obs.content) = 0
\* C38: the two tests of "the previous command has finished" agree on every
\* capture: with prev_status a timeout status, a normal command is typed
\* (not answered with the observation of a command still running) exactly
\* when the completion check of the polling loop holds on the capture.
C38_TestsAgree ==
    (/\ finish.prev_status \in {NO_CHANGE_TIMEOUT, HARD_TIMEOUT}
     /\ finish.normal # NotTested
     /\ finish.polled # NotTested) =>
       (finish.polled = COMPLETED <=> finish.normal = "typed")
\* C39: for an action event the handler has handled, at most one
\* observation is in the event stream: the result of running the action,
\* with the id of the action as its cause.  Nothing is added when running
\* raised (one error message is sent instead) or when the result is a
\* NullObservation.
C39_OneObservation ==
    handler.handed # <<>> =>
       LET e == handler.event
           token_raised == handler.handed[1].what = "error"
           result == run_action(e, handler.method_raises)
           nothing == token_raised \/ result \in {"raised", "NullObservation"}
       IN /\ Len(handler.stream) <= 1
          /\ nothing <=> handler.stream = <<>>
          /\ (token_raised \/ result = "raised") <=> handler.error_messages = 1
          /\ handler.error_messages <= 1
          /\ handler.stream # <<>> =>
                /\ handler.stream[1].observation = result
                /\ handler.stream[1].cause = e.id
          /\ (~e.runnable /\ ~e.think) => handler.stream = <<>>
          /\ e.confirmation_state = "awaiting_confirmation" =>
                \A i \in 1..Len(handler.stream) :
                   handler.stream[i].observation = "AgentThinkObservation"

\* a command action was run and its observation added with its id
C39_Witness ==
    /\ handler.handed # <<>>
    /\ handler.event.type = "CmdRunAction"
    /\ handler.event.id = 2
    /\ handler.stream = <<[observation |-> "Observation", cause |-> 2]>>
    /\ handler.error_messages = 0
\* the word that follows a flag in a command line
ValueAfter(argv, flag) ==
    argv[(CHOOSE i \in 1..Len(argv) : argv[i] = flag) + 1]

\* C40: in the startup command the value after --user-id is the override
\* whenever override_user_id is supplied (any integer, 0 too) and the value
\* after --username is the override whenever override_username is supplied;
\* only without an override do they come from the configuration: openhands
\* and the user id of the sandbox when run_as_openhands, else root and 0.
C40_OverridesWin ==
    startup.cmd.done =>
       /\ ValueAfter(startup.cmd.argv, "--user-id") =
             (IF startup.override_user_id.some
              THEN Str(startup.override_user_id.value)
              ELSE IF startup.run_as_openhands
                   THEN Str(startup.sandbox_user_id) ELSE "0")
       /\ ValueAfter(startup.cmd.argv, "--username") =
             (IF startup.override_username.some
              THEN startup.override_username.value
              ELSE IF startup.run_as_openhands THEN "openhands" ELSE "root")
====
